---- MODULE Spec2Model ----
(***************************************************************************)
(* Model of the azure-diagram-generator core:                              *)
(*   - model/layout.py        (layout_page and its three strategies)       *)
(*   - discovery/relationships.py (build_relationship_graph)               *)
(*   - discovery/data_flow.py (DataFlow, discover_data_flows)              *)
(*   - discovery/ip_resolver.py (IPResolver)                               *)
(* Coordinates are integers (every constant of layout.py is integral).     *)
(***************************************************************************)
EXTENDS Integers, Sequences, FiniteSets, TLC

VARIABLES
    nodes,          \* page.nodes: sequence of [id, w, h]
    groups,         \* page.groups: sequence of [id, parent_id, children]
    position,       \* node id -> [x, y]           (DiagramNode.position)
    bounding_box,   \* group id -> [x, y, w, h]    (DiagramGroup.bounding_box)
    strategy,       \* strategy of the last layout_page call
    previous_strategy, \* strategy of the layout_page call before it
    layoutState,    \* "ready" | "done" | "error" (RecursionError raised)
    resources,      \* the resource list handed to build_relationship_graph
    relationships,  \* the list build_relationship_graph returned
    relState,       \* "ready" | "returned" | "raised"
    runs,           \* number of runs of build_relationship_graph so far
    nsg_rules,      \* the rule records handed to _flows_from_nsg_rules
    flows,          \* the list of DataFlow objects it returned
    flowState,      \* "ready" | "done" | "raised"
    df_args,        \* the arguments of a DataFlow(...) call
    df,             \* the DataFlow object it built
    dfState,        \* "ready" | "created"
    query,          \* the resource an IPResolver method is asked about
    answer,         \* [vm_ips, frontend_ips, has_public_ip] it returned
    ipState,        \* "ready" | "answered" | "raised"
    vnets,          \* network_resources["vnets"] handed to a template builder
    page,           \* a DiagramPage: [id, nodes, groups, edges]
    document,       \* what a renderer built from the page
    pageState       \* "inputs" | "built" | "given" | "rendered" | "raised"

layoutVars == <<nodes, groups, position, bounding_box, strategy,
                previous_strategy, layoutState>>
relVars == <<resources, relationships, relState, runs>>
flowVars == <<nsg_rules, flows, flowState>>

ctorVars == <<df_args, df, dfState>>
ipVars == <<query, answer, ipState>>

pageVars == <<vnets, page, document, pageState>>

vars == <<layoutVars, relVars, flowVars, ctorVars, ipVars, pageVars>>

\* ------------------------------------------------------------------------
\* Bounds
\* ------------------------------------------------------------------------
MaxGroups == 3

\* Depth at which the interpreter gives up a recursion (RecursionError).
\* CPython's default is 1000; any value above the number of groups tells a
\* cyclic children graph from a forest.
RecursionLimit == 8

\* copies of the first resource in an input list, runs of the inference on
\* one input
MaxCopies == 2
MaxRuns == 2

\* rules in one rule list
MaxRules == 2

\* resources in one input of discover_data_flows or IPResolver
MaxResources == 2

\* root groups of a flat page, nodes in its first group
MaxRoots == 5
MaxCellNodes == 3

\* layout_page calls on one page
MaxLayouts == 2

\* nodes and edges of a page handed to a renderer
MaxShapes == 2
MaxEdges == 2

\* ------------------------------------------------------------------------
\* layout.py constants
\* ------------------------------------------------------------------------
PADDING == 40
GROUP_PADDING == 50
NODE_SPACING_X == 160
NODE_SPACING_Y == 120
GROUP_HEADER_HEIGHT == 30

Max2(a, b) == IF a > b THEN a ELSE b
Min2(a, b) == IF a < b THEN a ELSE b
Max3(a, b, c) == Max2(a, Max2(b, c))

nodes_per_row == Max2(3, 800 \div NODE_SPACING_X)

Strategies == {"hierarchical", "left_to_right", "grid", "force_directed"}

NoParent == <<"none">>
Gid(i) == <<"g", i>>
Nid(i, j) == <<"n", i, j>>
GhostId == <<"x", 0>>

\* default of graph.Size and graph.BoundingBox / graph.Position
DefaultSize == [w |-> 120, h |-> 80]
DefaultBox == [x |-> 0, y |-> 0, w |-> 400, h |-> 300]
DefaultPos == [x |-> 0, y |-> 0]

\* ------------------------------------------------------------------------
\* Page lookups (node_map / group_map of the layout functions)
\* ------------------------------------------------------------------------
SeqIds(s) == {s[i].id : i \in DOMAIN s}
\* "{n.id: n for n in page.nodes}": the last node of an id
node_map(ns, id) ==
    ns[CHOOSE i \in DOMAIN ns :
         ns[i].id = id /\ \A j \in DOMAIN ns : ns[j].id = id => j <= i]
group_map(gs, id) ==
    gs[CHOOSE i \in DOMAIN gs :
         gs[i].id = id /\ \A j \in DOMAIN gs : gs[j].id = id => j <= i]

\* ------------------------------------------------------------------------
\* _layout_group_recursive (layout.py 114-180)
\* A layout state st is [pos, bbox, err]: the node positions and the group
\* bounding boxes written so far, and whether the recursion was abandoned.
\* ------------------------------------------------------------------------
IsGroupId(gs, id) == id \in SeqIds(gs)
IsNodeId(ns, id) == id \in SeqIds(ns)

\* child_groups / child_nodes of lines 125-132, in children order
child_group_ids(gs, children) ==
    SelectSeq(children, LAMBDA c : IsGroupId(gs, c))
child_node_ids(ns, gs, children) ==
    SelectSeq(children, LAMBDA c : ~IsGroupId(gs, c) /\ IsNodeId(ns, c))

\* lines 151-164: rows of child nodes; acc = the loop's local variables
RECURSIVE PlaceRows(_, _, _, _, _)
PlaceRows(acc, ns, ids, i, inner_x) ==
    IF i > Len(ids) THEN acc
    ELSE LET n == node_map(ns, ids[i])
             wrap == acc.col >= nodes_per_row
             ny == IF wrap THEN acc.node_y + acc.row_height + NODE_SPACING_Y
                   ELSE acc.node_y
             nx == IF wrap THEN inner_x ELSE acc.node_x
             rh == IF wrap THEN 0 ELSE acc.row_height
             c0 == IF wrap THEN 0 ELSE acc.col
             nx2 == nx + n.w + NODE_SPACING_X
         IN PlaceRows(
              [pos |-> [acc.pos EXCEPT ![n.id] = [x |-> nx, y |-> ny]],
               node_x |-> nx2,
               node_y |-> ny,
               row_height |-> Max2(rh, n.h),
               max_row_width |-> Max2(acc.max_row_width, nx2 - inner_x),
               col |-> c0 + 1],
              ns, ids, i + 1, inner_x)

\* lines 166-180: the bounding box of a group from the extent of its content
\* (cx: right end of the child groups, rows: the state of the node rows)
group_bounding_box_no_row(start_x, start_y, cx, max_child_height, rows, has_nodes) ==
    LET inner_x == start_x + GROUP_PADDING
        inner_y == start_y + GROUP_PADDING + GROUP_HEADER_HEIGHT
        content_width == Max3(cx - inner_x, rows.max_row_width, 200)
        content_bottom == IF has_nodes THEN rows.node_y
                          ELSE inner_y + max_child_height
        content_height == content_bottom - start_y + GROUP_PADDING
    IN [x |-> start_x, y |-> start_y,
        w |-> content_width + GROUP_PADDING * 2,
        h |-> Max2(content_height, 100)]

group_bounding_box(start_x, start_y, cx, max_child_height, rows, has_nodes) ==
    LET inner_x == start_x + GROUP_PADDING
        inner_y == start_y + GROUP_PADDING + GROUP_HEADER_HEIGHT
        content_width == Max3(cx - inner_x, rows.max_row_width, 200)
        content_bottom == IF has_nodes THEN rows.node_y + rows.row_height
                          ELSE inner_y + max_child_height
        content_height == content_bottom - start_y + GROUP_PADDING
    IN [x |-> start_x, y |-> start_y,
        w |-> content_width + GROUP_PADDING * 2,
        h |-> Max2(content_height, 100)]

next_child_x_no_width(cx, bb) == cx + PADDING

\* "cx += child_group.bounding_box.w + PADDING"
next_child_x(cx, bb) == cx + bb.w + PADDING

RECURSIVE LayoutGroupRecursive(_, _, _, _, _, _, _)
RECURSIVE LayoutChildGroups(_, _, _, _, _, _, _)

\* lines 134-141: child groups side by side; acc = [st, cx, max_child_height]
LayoutChildGroups(acc, ns, gs, cgs, i, inner_y, depth) ==
    IF i > Len(cgs) \/ acc.st.err THEN acc
    ELSE LET st2 == LayoutGroupRecursive(acc.st, ns, gs, cgs[i], acc.cx,
                                         inner_y, depth + 1)
             bb == st2.bbox[cgs[i]]
         IN LayoutChildGroups(
              [st |-> st2,
               cx |-> next_child_x(acc.cx, bb),
               max_child_height |-> Max2(acc.max_child_height, bb.h)],
              ns, gs, cgs, i + 1, inner_y, depth)

LayoutGroupRecursive(st, ns, gs, gid, start_x, start_y, depth) ==
    IF depth > RecursionLimit THEN [st EXCEPT !.err = TRUE]
    ELSE
    LET group == group_map(gs, gid)
        inner_x == start_x + GROUP_PADDING
        inner_y == start_y + GROUP_PADDING + GROUP_HEADER_HEIGHT
        cgs == child_group_ids(gs, group.children)
        cns == child_node_ids(ns, gs, group.children)
        r == LayoutChildGroups([st |-> st, cx |-> inner_x, max_child_height |-> 0],
                               ns, gs, cgs, 1, inner_y, depth)
        node_y0 == inner_y + (IF Len(cgs) > 0 THEN r.max_child_height + PADDING
                              ELSE 0)
        rows == PlaceRows([pos |-> r.st.pos, node_x |-> inner_x, node_y |-> node_y0,
                           row_height |-> 0, max_row_width |-> 0, col |-> 0],
                          ns, cns, 1, inner_x)
    IN IF r.st.err THEN r.st
       ELSE [pos |-> rows.pos,
             bbox |-> [r.st.bbox EXCEPT ![gid] =
                         group_bounding_box(start_x, start_y, r.cx,
                                            r.max_child_height, rows,
                                            Len(cns) > 0)],
             err |-> FALSE]

\* ------------------------------------------------------------------------
\* _layout_hierarchical (layout.py 70-111)
\* ------------------------------------------------------------------------
root_groups(gs) == SelectSeq(gs, LAMBDA g : g.parent_id = NoParent)

grouped_node_ids(gs) ==
    UNION {{gs[i].children[k] : k \in DOMAIN gs[i].children} : i \in DOMAIN gs}

ungrouped_nodes(ns, gs) ==
    SelectSeq(ns, LAMBDA n : n.id \notin grouped_node_ids(gs))

\* lines 91-95: acc = [st, current_x]
RECURSIVE LayoutRoots(_, _, _, _, _)
LayoutRoots(acc, ns, gs, roots, i) ==
    IF i > Len(roots) \/ acc.st.err THEN acc
    ELSE LET st2 == LayoutGroupRecursive(acc.st, ns, gs, roots[i].id,
                                         acc.current_x, PADDING, 1)
         IN LayoutRoots([st |-> st2,
                         current_x |-> acc.current_x
                                       + st2.bbox[roots[i].id].w + PADDING],
                        ns, gs, roots, i + 1)

\* lines 99-103
RECURSIVE MaxGroupBottom(_, _, _, _)
MaxGroupBottom(bbox, roots, i, m) ==
    IF i > Len(roots) THEN m
    ELSE MaxGroupBottom(bbox, roots, i + 1,
                        Max2(m, bbox[roots[i].id].y + bbox[roots[i].id].h))

\* lines 105-109
RECURSIVE PlaceUngroupedRow(_, _, _, _, _)
PlaceUngroupedRow(pos, un, i, ux, uy) ==
    IF i > Len(un) THEN pos
    ELSE PlaceUngroupedRow([pos EXCEPT ![un[i].id] = [x |-> ux, y |-> uy]],
                           un, i + 1, ux + un[i].w + NODE_SPACING_X, uy)

\* the row of ungrouped nodes below the last root group only
LayoutHierarchical_last_bottom(st, ns, gs) ==
    LET roots == root_groups(gs)
        r == LayoutRoots([st |-> st, current_x |-> PADDING], ns, gs, roots, 1)
        un == ungrouped_nodes(ns, gs)
        last == r.st.bbox[roots[Len(roots)].id]
        uy == (IF roots = <<>> THEN PADDING ELSE last.y + last.h) + PADDING
    IN IF r.st.err THEN r.st
       ELSE [r.st EXCEPT !.pos = PlaceUngroupedRow(r.st.pos, un, 1, PADDING, uy)]

\* the row of ungrouped nodes below the boxes the groups had before the call
LayoutHierarchical_stale_bottom(st, ns, gs) ==
    LET roots == root_groups(gs)
        r == LayoutRoots([st |-> st, current_x |-> PADDING], ns, gs, roots, 1)
        un == ungrouped_nodes(ns, gs)
        uy == MaxGroupBottom(st.bbox, roots, 1, PADDING) + PADDING
    IN IF r.st.err THEN r.st
       ELSE [r.st EXCEPT !.pos = PlaceUngroupedRow(r.st.pos, un, 1, PADDING, uy)]

LayoutHierarchical(st, ns, gs) ==
    LET roots == root_groups(gs)
        r == LayoutRoots([st |-> st, current_x |-> PADDING], ns, gs, roots, 1)
        un == ungrouped_nodes(ns, gs)
        uy == MaxGroupBottom(r.st.bbox, roots, 1, PADDING) + PADDING
    IN IF r.st.err THEN r.st
       ELSE [r.st EXCEPT !.pos = PlaceUngroupedRow(r.st.pos, un, 1, PADDING, uy)]

\* ------------------------------------------------------------------------
\* _layout_left_to_right (layout.py 186-225)
\* ------------------------------------------------------------------------
\* lines 202-206: acc = [pos, node_y, max_node_width]
RECURSIVE StackColumn(_, _, _, _, _)
StackColumn(acc, ns, ids, i, col_x) ==
    IF i > Len(ids) THEN acc
    ELSE LET n == node_map(ns, ids[i])
         IN StackColumn(
              [pos |-> [acc.pos EXCEPT ![n.id] =
                          [x |-> col_x + GROUP_PADDING, y |-> acc.node_y]],
               node_y |-> acc.node_y + n.h + NODE_SPACING_Y,
               max_node_width |-> Max2(acc.max_node_width, n.w)],
              ns, ids, i + 1, col_x)

next_col_x_no_padding(col_x, group_width) == col_x + group_width

\* "col_x += group_width + PADDING"
next_col_x(col_x, group_width) == col_x + group_width + PADDING

\* lines 197-213: acc = [st, col_x]
RECURSIVE LayoutColumns(_, _, _, _)
LayoutColumns(acc, ns, gs, i) ==
    IF i > Len(gs) THEN acc
    ELSE LET group == gs[i]
             cns == SelectSeq(group.children, LAMBDA c : IsNodeId(ns, c))
             c == StackColumn([pos |-> acc.st.pos,
                               node_y |-> PADDING + GROUP_PADDING + GROUP_HEADER_HEIGHT,
                               max_node_width |-> 0],
                              ns, cns, 1, acc.col_x)
             group_width == Max2(c.max_node_width + GROUP_PADDING * 2, 200)
             group_height == Max2(c.node_y - PADDING + GROUP_PADDING, 150)
         IN LayoutColumns(
              [st |-> [pos |-> c.pos,
                       bbox |-> [acc.st.bbox EXCEPT ![group.id] =
                                   [x |-> acc.col_x, y |-> PADDING,
                                    w |-> group_width, h |-> group_height]],
                       err |-> FALSE],
               col_x |-> next_col_x(acc.col_x, group_width)],
              ns, gs, i + 1)

\* lines 220-223
RECURSIVE PlaceUngroupedColumn(_, _, _, _, _)
PlaceUngroupedColumn(pos, un, i, ux, uy) ==
    IF i > Len(un) THEN pos
    ELSE PlaceUngroupedColumn([pos EXCEPT ![un[i].id] = [x |-> ux, y |-> uy]],
                              un, i + 1, ux, uy + un[i].h + NODE_SPACING_Y)

LayoutLeftToRight(st, ns, gs) ==
    LET r == LayoutColumns([st |-> st, col_x |-> PADDING], ns, gs, 1)
        un == ungrouped_nodes(ns, gs)
    IN [r.st EXCEPT !.pos = PlaceUngroupedColumn(r.st.pos, un, 1, r.col_x, PADDING)]

\* ------------------------------------------------------------------------
\* _layout_grid (layout.py 231-271)
\* ------------------------------------------------------------------------
col_width == 350
row_height == 250

\* lines 256-261: acc = [pos, nx, ny]
RECURSIVE PlaceCell(_, _, _, _, _)
PlaceCell(acc, ns, ids, i, gx) ==
    IF i > Len(ids) THEN acc
    ELSE LET n == node_map(ns, ids[i])
             nx1 == acc.nx + n.w + 20
             wrap == nx1 > gx + col_width - GROUP_PADDING
         IN PlaceCell(
              [pos |-> [acc.pos EXCEPT ![n.id] = [x |-> acc.nx, y |-> acc.ny]],
               nx |-> IF wrap THEN gx + GROUP_PADDING ELSE nx1,
               ny |-> IF wrap THEN acc.ny + n.h + 20 ELSE acc.ny],
              ns, ids, i + 1, gx)

\* lines 267-269: acc = [st, cgx]
RECURSIVE LayoutCellGroups(_, _, _, _, _, _)
LayoutCellGroups(acc, ns, gs, cgs, i, cgy) ==
    IF i > Len(cgs) \/ acc.st.err THEN acc
    ELSE LET st2 == LayoutGroupRecursive(acc.st, ns, gs, cgs[i], acc.cgx, cgy, 1)
         IN LayoutCellGroups([st |-> st2,
                              cgx |-> acc.cgx + st2.bbox[cgs[i]].w + PADDING],
                             ns, gs, cgs, i + 1, cgy)

\* lines 244-269, one root group per step
RECURSIVE LayoutCells(_, _, _, _, _, _)
LayoutCells(st, ns, gs, roots, idx, cols) ==
    IF idx > Len(roots) \/ st.err THEN st
    ELSE LET group == roots[idx]
             row == (idx - 1) \div cols
             col == (idx - 1) % cols
             gx == PADDING + col * (col_width + PADDING)
             gy == PADDING + row * (row_height + PADDING)
             box == [st.bbox EXCEPT ![group.id] =
                       [x |-> gx, y |-> gy, w |-> col_width, h |-> row_height]]
             cns == SelectSeq(group.children, LAMBDA c : IsNodeId(ns, c))
             cell == PlaceCell([pos |-> st.pos, nx |-> gx + GROUP_PADDING,
                                ny |-> gy + GROUP_PADDING + GROUP_HEADER_HEIGHT],
                               ns, cns, 1, gx)
             cgs == SelectSeq(group.children, LAMBDA c : IsGroupId(gs, c))
             cgy == IF Len(cns) > 0 THEN cell.ny + PADDING
                    ELSE gy + GROUP_PADDING + GROUP_HEADER_HEIGHT
             r == LayoutCellGroups([st |-> [pos |-> cell.pos, bbox |-> box,
                                            err |-> FALSE],
                                    cgx |-> gx + GROUP_PADDING],
                                   ns, gs, cgs, 1, cgy)
         IN LayoutCells(r.st, ns, gs, roots, idx + 1, cols)

grid_cols_unbounded(n) == Max2(1, n)

\* "cols = max(1, min(4, len(root_groups)))"
grid_cols(n) == Max2(1, Min2(4, n))

LayoutGrid(st, ns, gs) ==
    LET roots == root_groups(gs)
        cols == grid_cols(Len(roots))
    IN LayoutCells(st, ns, gs, roots, 1, cols)

\* ------------------------------------------------------------------------
\* layout_page (layout.py 40-57)
\* ------------------------------------------------------------------------
\* an unknown strategy treated as the last one tested
layout_page_fallback_grid(st, ns, gs, strat) ==
    IF strat = "hierarchical" THEN LayoutHierarchical(st, ns, gs)
    ELSE IF strat = "left_to_right" THEN LayoutLeftToRight(st, ns, gs)
    ELSE LayoutGrid(st, ns, gs)

layout_page(st, ns, gs, strat) ==
    IF strat = "hierarchical" THEN LayoutHierarchical(st, ns, gs)
    ELSE IF strat = "left_to_right" THEN LayoutLeftToRight(st, ns, gs)
    ELSE IF strat = "grid" THEN LayoutGrid(st, ns, gs)
    ELSE LayoutHierarchical(st, ns, gs)

\* ------------------------------------------------------------------------
\* Input pages.  A page is built from a parent map over groups 1..k (0 = no
\* parent), a number of nodes per group and a number of ungrouped nodes.
\* children of a group = its child groups, then its nodes, then an optional
\* extra entry (a repeated, foreign or unknown id) for malformed pages.
\* ------------------------------------------------------------------------
ParentMaps(k) == {par \in [1..k -> 0..k] : \A i \in 1..k : par[i] < i}

SizePatterns == {"default", "mixed"}

NodeSize(pattern, i, j) ==
    IF pattern = "default" THEN DefaultSize
    ELSE [w |-> IF (i + j) % 2 = 0 THEN 200 ELSE 60,
          h |-> IF j % 3 = 1 THEN 40 ELSE 100]

NodeCount(i, big, empty) ==
    IF i = big THEN nodes_per_row + 1 ELSE IF i = empty THEN 0 ELSE 2

RECURSIVE Concat(_, _)
Concat(f, n) == IF n = 0 THEN <<>> ELSE Concat(f, n - 1) \o f[n]

NoExtra == <<0, NoParent>>

MkNodes(k, cnt, pattern) ==
    Concat([i \in 1..(k + 1) |->
              [j \in 1..cnt[i - 1] |->
                 [id |-> Nid(i - 1, j),
                  w |-> NodeSize(pattern, i - 1, j).w,
                  h |-> NodeSize(pattern, i - 1, j).h]]],
           k + 1)

MkGroups(k, par, cnt, extra) ==
    [i \in 1..k |->
       [id |-> Gid(i),
        parent_id |-> IF par[i] = 0 THEN NoParent ELSE Gid(par[i]),
        children |->
            SelectSeq([c \in 1..k |-> Gid(c)], LAMBDA c : par[c[2]] = i)
            \o [j \in 1..cnt[i] |-> Nid(i, j)]
            \o (IF extra[1] = i THEN <<extra[2]>> ELSE <<>>)]]

InitPage(k, par, cnt, pattern, extra) ==
    /\ nodes = MkNodes(k, cnt, pattern)
    /\ groups = MkGroups(k, par, cnt, extra)
    /\ position = [id \in SeqIds(MkNodes(k, cnt, pattern)) |-> DefaultPos]
    /\ bounding_box = [id \in {Gid(i) : i \in 1..k} |-> DefaultBox]
    /\ strategy = "none"
    /\ previous_strategy = "none"
    /\ layoutState = "ready"

\* pages whose groups and nodes form a forest
InitForestPage ==
    \E k \in 0..MaxGroups :
      \E par \in ParentMaps(k), big \in 0..k, empty \in 0..k,
         ungrouped \in {0, 2}, pattern \in SizePatterns :
        InitPage(k, par,
                 [i \in 0..k |-> IF i = 0 THEN ungrouped
                                 ELSE NodeCount(i, big, empty)],
                 pattern, NoExtra)

\* malformed pages: one children list has an extra entry that names an
\* unknown id, the group itself, an ancestor, or a group owned elsewhere
InitMalformedPage ==
    \E k \in 1..MaxGroups :
      \E par \in ParentMaps(k), g \in 1..k,
         c \in {Gid(i) : i \in 1..k} \cup {GhostId, Nid(0, 1)} :
        InitPage(k, par, [i \in 0..k |-> 1], "default", <<g, c>>)

RelIdle ==
    /\ resources = <<>>
    /\ relationships = <<>>
    /\ relState = "idle"
    /\ runs = 0

FlowIdle ==
    /\ nsg_rules = <<>>
    /\ flows = <<>>
    /\ flowState = "idle"

CtorIdle ==
    /\ df_args = <<>>
    /\ df = <<>>
    /\ dfState = "idle"

PageIdle ==
    /\ vnets = <<>>
    /\ page = <<>>
    /\ document = <<>>
    /\ pageState = "idle"

IpIdle ==
    /\ query = <<>>
    /\ answer = <<>>
    /\ ipState = "idle"

\* flat pages, as the high-level page has them: k root groups, the first
\* with nodes of chosen widths, the others with one node of default size
CellWidths == {60, 120, 200, 250}

InitFlatPage ==
    \E k \in 1..MaxRoots, n \in 0..MaxCellNodes :
      \E ws \in [1..n -> CellWidths] :
        /\ nodes = [j \in 1..n |-> [id |-> Nid(1, j), w |-> ws[j], h |-> DefaultSize.h]]
                   \o [i \in 1..(k - 1) |->
                         [id |-> Nid(i + 1, 1), w |-> DefaultSize.w, h |-> DefaultSize.h]]
        /\ groups = [i \in 1..k |->
                       [id |-> Gid(i), parent_id |-> NoParent,
                        children |-> IF i = 1 THEN [j \in 1..n |-> Nid(1, j)]
                                     ELSE <<Nid(i, 1)>>]]
        /\ position = [id \in {Nid(1, j) : j \in 1..n} \cup {Nid(i, 1) : i \in 2..k}
                         |-> DefaultPos]
        /\ bounding_box = [id \in {Gid(i) : i \in 1..k} |-> DefaultBox]
        /\ strategy = "none"
        /\ previous_strategy = "none"
        /\ layoutState = "ready"

\* number of layout_page calls made on the page so far (at most 2 are kept
\* apart)
LayoutCalls ==
    IF strategy = "none" THEN 0 ELSE IF previous_strategy = "none" THEN 1 ELSE 2

InitLayout ==
    /\ InitForestPage \/ InitMalformedPage \/ InitFlatPage
    /\ RelIdle /\ FlowIdle /\ CtorIdle /\ IpIdle /\ PageIdle

\* layout_page(page, strategy): positions and bounding boxes are written in
\* place; an abandoned recursion leaves what was written before it.  The
\* page it returns is the page it was given, so a caller can lay it out
\* again (MaxLayouts calls are followed).
LayoutPage ==
    /\ layoutState \in {"ready", "done"}
    /\ LayoutCalls < MaxLayouts
    /\ \E strat \in Strategies :
         LET r == layout_page([pos |-> position, bbox |-> bounding_box,
                               err |-> FALSE], nodes, groups, strat)
         IN /\ position' = r.pos
            /\ bounding_box' = r.bbox
            /\ strategy' = strat
            /\ previous_strategy' = strategy
            /\ layoutState' = IF r.err THEN "error" ELSE "done"
    /\ UNCHANGED <<nodes, groups, relVars, flowVars, ctorVars, ipVars, pageVars>>

NextLayout == LayoutPage

SpecLayout == InitLayout /\ [][NextLayout]_vars

\* ------------------------------------------------------------------------
\* Page shape predicates used by the layout properties
\* ------------------------------------------------------------------------
KnownIds == SeqIds(nodes) \cup SeqIds(groups)

\* (group index, position) of every children entry that names an element
ChildSlots ==
    {s \in UNION {{<<i, k>> : k \in DOMAIN groups[i].children} : i \in DOMAIN groups} :
        groups[s[1]].children[s[2]] \in KnownIds}

RECURSIVE ReachesRoot(_, _)
ReachesRoot(pid, fuel) ==
    IF pid = NoParent THEN TRUE
    ELSE IF fuel = 0 \/ pid \notin SeqIds(groups) THEN FALSE
    ELSE ReachesRoot(group_map(groups, pid).parent_id, fuel - 1)

\* unique ids, every element in at most one children list, parent_id agrees
\* with the children lists, no cycle
IsForest ==
    /\ \A i, j \in DOMAIN groups : groups[i].id = groups[j].id => i = j
    /\ \A i, j \in DOMAIN nodes : nodes[i].id = nodes[j].id => i = j
    /\ SeqIds(nodes) \cap SeqIds(groups) = {}
    /\ \A s, t \in ChildSlots :
         groups[s[1]].children[s[2]] = groups[t[1]].children[t[2]] => s = t
    /\ \A i \in DOMAIN groups :
         /\ ReachesRoot(groups[i].parent_id, Len(groups))
         /\ groups[i].parent_id = NoParent =>
              \A s \in ChildSlots : groups[s[1]].children[s[2]] # groups[i].id
         /\ groups[i].parent_id # NoParent =>
              \E s \in ChildSlots : /\ groups[s[1]].id = groups[i].parent_id
                                    /\ groups[s[1]].children[s[2]] = groups[i].id

\* rectangle of a page element: node position + size, or group bounding box
Rect(id) ==
    IF id \in SeqIds(groups) THEN bounding_box[id]
    ELSE [x |-> position[id].x, y |-> position[id].y,
          w |-> node_map(nodes, id).w, h |-> node_map(nodes, id).h]

\* inner lies in outer, inset by l, t, r, b
InsideInset(inner, outer, l, t, r, b) ==
    /\ inner.x >= outer.x + l
    /\ inner.y >= outer.y + t
    /\ inner.x + inner.w <= outer.x + outer.w - r
    /\ inner.y + inner.h <= outer.y + outer.h - b

\* C1: after hierarchical layout of a forest page, every child (node
\* rectangle or child group box) of every group lies inside the group's
\* bounding box, inset by GROUP_PADDING on the left, right and bottom and by
\* GROUP_PADDING + GROUP_HEADER_HEIGHT at the top, at every nesting depth.
C1_HierarchicalContainment ==
    (layoutState = "done" /\ strategy = "hierarchical" /\ IsForest) =>
        \A s \in ChildSlots :
            InsideInset(Rect(groups[s[1]].children[s[2]]),
                        bounding_box[groups[s[1]].id],
                        GROUP_PADDING, GROUP_PADDING + GROUP_HEADER_HEIGHT,
                        GROUP_PADDING, GROUP_PADDING)

\* a laid-out forest with three nested groups, the innermost holding more
\* nodes than fit one row
C1_Witness ==
    /\ layoutState = "done" /\ strategy = "hierarchical" /\ IsForest
    /\ \E a, b, c \in DOMAIN groups :
         /\ groups[a].parent_id = NoParent
         /\ groups[b].parent_id = groups[a].id
         /\ groups[c].parent_id = groups[b].id
         /\ Len(child_node_ids(nodes, groups, groups[c].children)) > nodes_per_row
         /\ Len(child_node_ids(nodes, groups, groups[b].children)) > 0

\* C5: layout_page returns the page, without error, for every page and every
\* strategy, also when a children list names an unknown id or when a group
\* contains itself directly or through other groups.
C5_LayoutNeverFails == layoutState # "error"

\* ========================================================================
\* discovery/relationships.py
\* ========================================================================
\* Resource records are JSON documents.  A value is a record tagged with its
\* kind: null, str, num, list or dict.  A string is a sequence of tokens
\* (path segments and names); letter case lives in the tokens, so that
\* str.lower() is a real conversion.
JNull == [k |-> "null"]
JStr(t) == [k |-> "str", s |-> t]
JNum(n) == [k |-> "num", n |-> n]
JList(xs) == [k |-> "list", l |-> xs]
JDict(f) == [k |-> "dict", d |-> f]
EmptyDict == JDict([z \in {} |-> JNull])
EmptyList == JList(<<>>)

IsDict(x) == x.k = "dict"
IsStr(x) == x.k = "str"
IsList(x) == x.k = "list"

\* bool(x)
Truthy(x) ==
    CASE x.k = "null" -> FALSE
      [] x.k = "str" -> Len(x.s) > 0
      [] x.k = "num" -> x.n # 0
      [] x.k = "list" -> Len(x.l) > 0
      [] x.k = "dict" -> DOMAIN x.d # {}

\* dict.get(key, default)
DictGet(d, key, default) == IF key \in DOMAIN d.d THEN d.d[key] ELSE default

\* str.lower(), token by token; a token that is not listed has no upper-case
\* letter
CaseTable ==
    [t \in {"VM1", "NIC1", "Vnet1", "Hub", "Web", "NSG1", "PIP1", "SQL1", "PE1",
            "PE2", "ST1",
            "Plan1", "App.Contoso.Com", "Allow", "ALLOW", "Deny", "Inbound",
            "OUTBOUND", "Both", "Tcp", "/Subnets/", "/Microsoft.Network/networkInterfaces/",
            "/privateEndpoints/", "/ipConfigurations/", "/networkSecurityGroups/",
            "Microsoft.Compute/virtualMachines",
            "MICROSOFT.NETWORK/NETWORKINTERFACES",
            "Microsoft.Network/virtualNetworks",
            "Microsoft.Network/networkSecurityGroups",
            "Microsoft.Network/loadBalancers",
            "Microsoft.Network/applicationGateways",
            "Microsoft.Network/privateEndpoints",
            "Microsoft.Web/sites",
            "Microsoft.Sql/servers",
            "Microsoft.Storage/storageAccounts",
            "Microsoft.Network/publicIPAddresses"} |->
       CASE t = "VM1" -> "vm1"
         [] t = "NIC1" -> "nic1"
         [] t = "Vnet1" -> "vnet1"
         [] t = "Hub" -> "hub"
         [] t = "Web" -> "web"
         [] t = "NSG1" -> "nsg1"
         [] t = "PIP1" -> "pip1"
         [] t = "SQL1" -> "sql1"
         [] t = "PE1" -> "pe1"
         [] t = "PE2" -> "pe2"
         [] t = "ST1" -> "st1"
         [] t = "Plan1" -> "plan1"
         [] t = "App.Contoso.Com" -> "app.contoso.com"
         [] t = "Allow" -> "allow"
         [] t = "ALLOW" -> "allow"
         [] t = "Deny" -> "deny"
         [] t = "Inbound" -> "inbound"
         [] t = "OUTBOUND" -> "outbound"
         [] t = "Both" -> "both"
         [] t = "Tcp" -> "tcp"
         [] t = "/Subnets/" -> "/subnets/"
         [] t = "/Microsoft.Network/networkInterfaces/" -> "/microsoft.network/networkinterfaces/"
         [] t = "/privateEndpoints/" -> "/privateendpoints/"
         [] t = "/ipConfigurations/" -> "/ipconfigurations/"
         [] t = "/networkSecurityGroups/" -> "/networksecuritygroups/"
         [] t = "Microsoft.Compute/virtualMachines" -> "microsoft.compute/virtualmachines"
         [] t = "MICROSOFT.NETWORK/NETWORKINTERFACES" -> "microsoft.network/networkinterfaces"
         [] t = "Microsoft.Network/virtualNetworks" -> "microsoft.network/virtualnetworks"
         [] t = "Microsoft.Network/networkSecurityGroups" -> "microsoft.network/networksecuritygroups"
         [] t = "Microsoft.Network/loadBalancers" -> "microsoft.network/loadbalancers"
         [] t = "Microsoft.Network/applicationGateways" -> "microsoft.network/applicationgateways"
         [] t = "Microsoft.Network/privateEndpoints" -> "microsoft.network/privateendpoints"
         [] t = "Microsoft.Web/sites" -> "microsoft.web/sites"
         [] t = "Microsoft.Sql/servers" -> "microsoft.sql/servers"
         [] t = "Microsoft.Storage/storageAccounts" -> "microsoft.storage/storageaccounts"
         [] t = "Microsoft.Network/publicIPAddresses" -> "microsoft.network/publicipaddresses"]

LowerTok(t) == IF t \in DOMAIN CaseTable THEN CaseTable[t] ELSE t
Lower(s) == [i \in DOMAIN s |-> LowerTok(s[i])]

SUBSCRIPTIONS == "/subscriptions/"

\* str.startswith("/subscriptions/")
StartsWithSubscriptions(s) == Len(s) > 0 /\ s[1] = SUBSCRIPTIONS

RECURSIVE SetToSeq(_)
SetToSeq(S) ==
    IF S = {} THEN <<>>
    ELSE LET e == CHOOSE e \in S : TRUE IN <<e>> \o SetToSeq(S \ {e})

\* iter(x): the elements of a list, the characters of a string (each a
\* one-character string), the keys of a dict; None and numbers raise
Iterable(x) == x.k \in {"list", "str", "dict"}
OneChar == JStr(<<"c">>)
Items(x) ==
    CASE x.k = "list" -> x.l
      [] x.k = "str" -> [i \in 1..Len(x.s) |-> OneChar]
      [] x.k = "dict" -> [i \in 1..Cardinality(DOMAIN x.d) |->
                            JStr(<<SetToSeq(DOMAIN x.d)[i]>>)]
      [] OTHER -> <<>>

\* _safe_get(data, *keys, default)   (relationships.py 50-58)
RECURSIVE SafeGetFrom(_, _, _, _)
SafeGetFrom(current, keys, i, default) ==
    IF i > Len(keys) THEN current
    ELSE IF IsDict(current)
         THEN SafeGetFrom(DictGet(current, keys[i], default), keys, i + 1, default)
         ELSE default

_safe_get(data, keys, default) == SafeGetFrom(data, keys, 1, default)

\* _extract_id(ref)   (relationships.py 61-67)
_extract_id(ref) ==
    IF IsDict(ref) THEN DictGet(ref, "id", JNull)
    ELSE IF IsStr(ref) /\ StartsWithSubscriptions(ref.s) THEN ref
    ELSE JNull

\* The outcome of a piece of inference: the relationships appended to rels,
\* or an exception.
Ok(rels) == [err |-> FALSE, rels |-> rels]
Raise == [err |-> TRUE, rels |-> <<>>]
Then(a, b) == IF a.err \/ b.err THEN Raise ELSE Ok(a.rels \o b.rels)

ResourceRelationship_keep_case(source_id, target_id, relationship_type, label) ==
    [source_id |-> Lower(source_id),
     target_id |-> target_id,
     relationship_type |-> relationship_type,
     label |-> label]

\* ResourceRelationship.__init__   (relationships.py 19-29)
ResourceRelationship(source_id, target_id, relationship_type, label) ==
    [source_id |-> Lower(source_id),
     target_id |-> Lower(target_id),
     relationship_type |-> relationship_type,
     label |-> label]

\* "if x: rels.append(ResourceRelationship(src, x, ...))": nothing for a
\* falsy x, AttributeError (x.lower()) for a truthy x that is not a string
AppendIf(src, x, relationship_type, label) ==
    IF ~Truthy(x) THEN Ok(<<>>)
    ELSE IF ~IsStr(x) THEN Raise
    ELSE Ok(<<ResourceRelationship(src, x.s, relationship_type, label)>>)

RECURSIVE ConcatRels(_, _)
ConcatRels(rs, n) == IF n = 0 THEN <<>> ELSE ConcatRels(rs, n - 1) \o rs[n].rels

\* "for item in x: ...": TypeError when x is not iterable, otherwise the
\* outcomes of the iterations in order
ForEach(x, Body(_)) ==
    IF ~Iterable(x) THEN Raise
    ELSE LET rs == [i \in DOMAIN Items(x) |-> Body(Items(x)[i])]
         IN IF \E i \in DOMAIN rs : rs[i].err THEN Raise
            ELSE Ok(ConcatRels(rs, Len(rs)))

\* "item.get('properties', {}) or {}" followed by uses of the result as a
\* dict: Body gets the property dict; AttributeError when item has no .get
\* or the properties value is truthy and not a dict
WithProps(item, Body(_)) ==
    IF ~IsDict(item) THEN Raise
    ELSE LET p == DictGet(item, "properties", EmptyDict)
         IN IF ~Truthy(p) THEN Body(EmptyDict) ELSE Body(p)

_infer_vm_relationships_wrong_key(vm_id, props) ==
    ForEach(_safe_get(props, <<"networkProfile", "networkInterface">>, EmptyList),
            LAMBDA nic_ref : AppendIf(vm_id, _extract_id(nic_ref), "has_nic", <<"NIC">>))

\* _infer_vm_relationships   (relationships.py 127-137)
_infer_vm_relationships(vm_id, props) ==
    ForEach(_safe_get(props, <<"networkProfile", "networkInterfaces">>, EmptyList),
            LAMBDA nic_ref : AppendIf(vm_id, _extract_id(nic_ref), "has_nic", <<"NIC">>))

\* _infer_nic_relationships   (relationships.py 140-171)
_infer_nic_relationships(nic_id, props) ==
    Then(AppendIf(nic_id, _extract_id(_safe_get(props, <<"networkSecurityGroup">>, JNull)),
                  "secured_by", <<"NSG">>),
         ForEach(_safe_get(props, <<"ipConfigurations">>, EmptyList),
                 LAMBDA ip_config :
                   WithProps(ip_config,
                     LAMBDA ip_props :
                       IF ~IsDict(ip_props) THEN Raise
                       ELSE Then(AppendIf(nic_id,
                                          _extract_id(DictGet(ip_props, "subnet", JNull)),
                                          "in_subnet", <<"Subnet">>),
                                 AppendIf(nic_id,
                                          _extract_id(DictGet(ip_props, "publicIPAddress", JNull)),
                                          "has_public_ip", <<"Public IP">>)))))

\* _infer_vnet_relationships   (relationships.py 174-190)
_infer_vnet_relationships(vnet_id, props) ==
    ForEach(_safe_get(props, <<"virtualNetworkPeerings">>, EmptyList),
            LAMBDA peering :
              WithProps(peering,
                LAMBDA peering_props :
                  AppendIf(vnet_id,
                           _extract_id(_safe_get(peering_props,
                                                 <<"remoteVirtualNetwork">>, JNull)),
                           "peered_with", <<"VNet Peering">>)))

\* _infer_nsg_relationships   (relationships.py 193-215)
_infer_nsg_relationships(nsg_id, props) ==
    Then(ForEach(_safe_get(props, <<"subnets">>, EmptyList),
                 LAMBDA subnet_ref :
                   AppendIf(nsg_id, _extract_id(subnet_ref), "applied_to",
                            <<"NSG -> Subnet">>)),
         ForEach(_safe_get(props, <<"networkInterfaces">>, EmptyList),
                 LAMBDA nic_ref :
                   AppendIf(nsg_id, _extract_id(nic_ref), "applied_to",
                            <<"NSG -> NIC">>)))

\* _ip_config_to_nic_id   (relationships.py 372-382): the longest prefix that
\* ends with .../microsoft.network/networkinterfaces/<name>, case-insensitive;
\* <<>> when the regular expression does not match
NicSegment == "/microsoft.network/networkinterfaces/"
SegmentTokens == {SUBSCRIPTIONS, "/subnets/", "/Subnets/", NicSegment,
                  "/Microsoft.Network/networkInterfaces/", "/privateendpoints/",
                  "/privateEndpoints/", "/ipconfigurations/", "/ipConfigurations/"}

NicMatches(s) ==
    {i \in 1..(Len(s) - 1) : LowerTok(s[i]) = NicSegment /\ s[i + 1] \notin SegmentTokens}

\* the reference returned as it is
_ip_config_to_nic_id_whole(s) == s

_ip_config_to_nic_id(s) ==
    IF NicMatches(s) = {} THEN <<>>
    ELSE SubSeq(s, 1, 1 + CHOOSE i \in NicMatches(s) : \A j \in NicMatches(s) : j <= i)

\* _infer_lb_relationships   (relationships.py 218-238)
_infer_lb_relationships(lb_id, props) ==
    ForEach(_safe_get(props, <<"backendAddressPools">>, EmptyList),
            LAMBDA pool :
              WithProps(pool,
                LAMBDA pool_props :
                  IF ~IsDict(pool_props) THEN Raise
                  ELSE ForEach(DictGet(pool_props, "backendIPConfigurations", EmptyList),
                         LAMBDA iface :
                           LET iface_id == _extract_id(iface)
                           IN IF ~Truthy(iface_id) THEN Ok(<<>>)
                              ELSE IF ~IsStr(iface_id) THEN Raise
                              ELSE AppendIf(lb_id,
                                            JStr(_ip_config_to_nic_id(iface_id.s)),
                                            "load_balances", <<"Backend">>))))

\* _infer_appgw_relationships   (relationships.py 241-270)
_infer_appgw_relationships(appgw_id, props) ==
    Then(ForEach(_safe_get(props, <<"backendAddressPools">>, EmptyList),
                 LAMBDA pool :
                   WithProps(pool,
                     LAMBDA pool_props :
                       IF ~IsDict(pool_props) THEN Raise
                       ELSE ForEach(DictGet(pool_props, "backendAddresses", EmptyList),
                              LAMBDA addr :
                                IF ~IsDict(addr) THEN Raise
                                ELSE LET fqdn == DictGet(addr, "fqdn", JStr(<<>>))
                                     IN AppendIf(appgw_id, fqdn, "routes_to",
                                                 IF IsStr(fqdn)
                                                 THEN <<"Backend: ">> \o fqdn.s
                                                 ELSE <<>>)))),
         ForEach(_safe_get(props, <<"gatewayIPConfigurations">>, EmptyList),
                 LAMBDA gw_ip :
                   WithProps(gw_ip,
                     LAMBDA gw_props :
                       IF ~IsDict(gw_props) THEN Raise
                       ELSE AppendIf(appgw_id,
                                     _extract_id(DictGet(gw_props, "subnet", JNull)),
                                     "in_subnet", <<"AppGW Subnet">>))))

\* _infer_app_service_relationships   (relationships.py 305-331)
_infer_app_service_relationships(app_id, props) ==
    Then(AppendIf(app_id, _safe_get(props, <<"virtualNetworkSubnetId">>, JNull),
                  "vnet_integrated", <<"VNet Integration">>),
         AppendIf(app_id, _safe_get(props, <<"serverFarmId">>, JNull),
                  "hosted_on", <<"App Service Plan">>))

\* _infer_data_resource_relationships   (relationships.py 334-369)
Contains(s, tok) == \E i \in DOMAIN s : s[i] = tok

_infer_data_resource_relationships(resource_id, props) ==
    Then(ForEach(_safe_get(props, <<"privateEndpointConnections">>, EmptyList),
                 LAMBDA pe_conn :
                   WithProps(pe_conn,
                     LAMBDA pe_props :
                       AppendIf(resource_id,
                                _extract_id(_safe_get(pe_props, <<"privateEndpoint">>, JNull)),
                                "has_private_endpoint", <<"Private Endpoint">>))),
         ForEach(_safe_get(props, <<"virtualNetworkRules">>, EmptyList),
                 LAMBDA rule :
                   IF ~IsDict(rule) THEN Raise
                   ELSE LET rule_props == DictGet(rule, "properties", EmptyDict)
                        IN IF ~IsDict(rule_props) THEN Raise
                           ELSE LET a == DictGet(rule_props, "virtualNetworkSubnetId", JNull)
                                    subnet_id == IF Truthy(a) THEN a
                                                 ELSE DictGet(rule, "id", JStr(<<>>))
                                IN IF ~Truthy(subnet_id) THEN Ok(<<>>)
                                   ELSE IF ~IsStr(subnet_id) THEN Raise
                                   ELSE IF Contains(Lower(subnet_id.s), "/subnets/")
                                        THEN AppendIf(resource_id, subnet_id, "vnet_rule",
                                                      <<"VNet Service Endpoint">>)
                                        ELSE Ok(<<>>)))

\* _infer_pe_relationships   (relationships.py 273-302).  The outcome carries
\* the property dict as the call leaves it: "connections += ..." extends the
\* list object found in props in place.
PLSC == "privateLinkServiceConnections"
MPLSC == "manualPrivateLinkServiceConnections"

\* connections after line 281, or JNull when "+=" raises TypeError
pe_connections(props) ==
    LET connections == _safe_get(props, <<PLSC>>, EmptyList)
        manual == _safe_get(props, <<MPLSC>>, EmptyList)
    IN IF IsList(connections) /\ Iterable(manual)
       THEN JList(connections.l \o Items(manual))
       ELSE IF IsStr(connections) /\ IsStr(manual)
       THEN JStr(connections.s \o manual.s)
       ELSE JNull

\* props after line 281: the list stored in props is the one extended
pe_props_after(props) ==
    IF /\ IsDict(props)
       /\ PLSC \in DOMAIN props.d
       /\ IsList(props.d[PLSC])
       /\ pe_connections(props) # JNull
    THEN JDict([props.d EXCEPT ![PLSC] = pe_connections(props)])
    ELSE props

_infer_pe_relationships(pe_id, props) ==
    IF pe_connections(props) = JNull THEN Raise
    ELSE Then(ForEach(pe_connections(props),
                LAMBDA conn :
                  WithProps(conn,
                    LAMBDA conn_props :
                      IF ~IsDict(conn_props) THEN Raise
                      ELSE AppendIf(pe_id,
                                    DictGet(conn_props, "privateLinkServiceId", JNull),
                                    "private_link_to", <<"Private Link">>))),
              AppendIf(pe_id, _extract_id(_safe_get(props, <<"subnet">>, JNull)),
                       "in_subnet", <<"PE Subnet">>))

\* ------------------------------------------------------------------------
\* build_relationship_graph   (relationships.py 70-124)
\* ------------------------------------------------------------------------
\* line 89: the type the dispatch compares
resource_type_raw(resource) == DictGet(resource, "type", JStr(<<>>)).s
resource_type(resource) == Lower(DictGet(resource, "type", JStr(<<>>)).s)

\* line 90
resource_props(resource) ==
    LET p == DictGet(resource, "properties", EmptyDict)
    IN IF Truthy(p) THEN p ELSE EmptyDict

\* lines 92-121
dispatch(rtype, rid, props) ==
    CASE rtype = <<"microsoft.compute/virtualmachines">> ->
           _infer_vm_relationships(rid, props)
      [] rtype = <<"microsoft.network/networkinterfaces">> ->
           _infer_nic_relationships(rid, props)
      [] rtype = <<"microsoft.network/virtualnetworks">> ->
           _infer_vnet_relationships(rid, props)
      [] rtype = <<"microsoft.network/networksecuritygroups">> ->
           _infer_nsg_relationships(rid, props)
      [] rtype = <<"microsoft.network/loadbalancers">> ->
           _infer_lb_relationships(rid, props)
      [] rtype = <<"microsoft.network/applicationgateways">> ->
           _infer_appgw_relationships(rid, props)
      [] rtype = <<"microsoft.network/privateendpoints">> ->
           _infer_pe_relationships(rid, props)
      [] rtype = <<"microsoft.web/sites">> ->
           _infer_app_service_relationships(rid, props)
      [] rtype \in {<<"microsoft.sql/servers">>,
                    <<"microsoft.documentdb/databaseaccounts">>,
                    <<"microsoft.cache/redis">>} ->
           _infer_data_resource_relationships(rid, props)
      [] OTHER -> Ok(<<>>)

\* lines 88-121 for one resource: [err, rels, res], res being the resource
\* record as the iteration leaves it
infer_resource(resource) ==
    IF \/ ~IsStr(DictGet(resource, "id", JStr(<<>>)))
       \/ ~IsStr(DictGet(resource, "type", JStr(<<>>)))
    THEN [err |-> TRUE, rels |-> <<>>, res |-> resource]
    ELSE LET rid == Lower(DictGet(resource, "id", JStr(<<>>)).s)
             rtype == resource_type(resource)
             props == resource_props(resource)
             r == dispatch(rtype, rid, props)
             after == IF rtype = <<"microsoft.network/privateendpoints">>
                         /\ pe_props_after(props) # props
                      THEN JDict([resource.d EXCEPT !["properties"] = pe_props_after(props)])
                      ELSE resource
         IN [err |-> r.err, rels |-> r.rels, res |-> after]

\* ResourceRelationship.__eq__ / __hash__   (relationships.py 37-47)
RelKey(r) == <<r.source_id, r.target_id, r.relationship_type>>

\* set.update: an element equal to one already in the set is not added
RECURSIVE SetUpdate(_, _, _)
SetUpdate(acc, rels, i) ==
    IF i > Len(rels) THEN acc
    ELSE SetUpdate(IF \E j \in DOMAIN acc : RelKey(acc[j]) = RelKey(rels[i])
                   THEN acc ELSE Append(acc, rels[i]),
                   rels, i + 1)

\* line 85: building resource_index raises when an id is not a string
IndexRaises(rs) ==
    \E i \in DOMAIN rs : "id" \in DOMAIN rs[i].d /\ ~IsStr(rs[i].d["id"])

\* the whole call: [err, rels, resources]; rels is the content of the set in
\* insertion order, resources the input list as the call leaves it
build_relationship_graph(rs) ==
    IF IndexRaises(rs) THEN [err |-> TRUE, rels |-> <<>>, resources |-> rs]
    ELSE LET out == [i \in DOMAIN rs |-> infer_resource(rs[i])]
             failed == {i \in DOMAIN rs : out[i].err}
             last == IF failed = {} THEN Len(rs)
                     ELSE CHOOSE i \in failed : \A j \in failed : i <= j
         IN [err |-> failed # {},
             rels |-> IF failed # {} THEN <<>>
                      ELSE SetUpdate(<<>>, ConcatRels(out, Len(rs)), 1),
             resources |-> [i \in DOMAIN rs |-> IF i <= last THEN out[i].res ELSE rs[i]]]

\* ------------------------------------------------------------------------
\* Input resources
\* ------------------------------------------------------------------------
Ref(id) == JDict([id |-> JStr(id)])
Res(id, type, props) ==
    JDict([id |-> JStr(id), type |-> JStr(<<type>>), properties |-> props])
Props(p) == JDict([properties |-> p])

VmId == <<SUBSCRIPTIONS, "VM1">>
NicId == <<SUBSCRIPTIONS, "/Microsoft.Network/networkInterfaces/", "NIC1">>
IpCfg(name) == NicId \o <<"/ipConfigurations/", name>>
VnetId == <<SUBSCRIPTIONS, "Vnet1">>
HubId == <<SUBSCRIPTIONS, "Hub">>
SubnetId == <<SUBSCRIPTIONS, "Vnet1", "/Subnets/", "Web">>
NsgId == <<SUBSCRIPTIONS, "NSG1">>
PipId == <<SUBSCRIPTIONS, "PIP1">>
SqlId == <<SUBSCRIPTIONS, "SQL1">>
PeId == <<SUBSCRIPTIONS, "/privateEndpoints/", "PE1">>
PlanId == <<SUBSCRIPTIONS, "Plan1">>

VmType == "Microsoft.Compute/virtualMachines"
NicType == "MICROSOFT.NETWORK/NETWORKINTERFACES"
VnetType == "Microsoft.Network/virtualNetworks"

\* the same type string in another letter case
TypeCases(t) == {t, LowerTok(t)} \cup {u \in DOMAIN CaseTable : CaseTable[u] = LowerTok(t)}
\* the same id in another letter case
IdCases(id) == {id, Lower(id)}

Vm(type, nics) ==
    Res(VmId, type, JDict([networkProfile |-> JDict([networkInterfaces |-> nics])]))
Nic(type, p) == Res(NicId, type, p)
IpConfiguration(p) == Props(JDict(p))
Vnet(type, remote) ==
    Res(VnetId, type,
        JDict([virtualNetworkPeerings |->
                 JList(<<Props(JDict([remoteVirtualNetwork |-> Ref(remote)]))>>)]))
Connection(service) == Props(JDict([privateLinkServiceId |-> JStr(service)]))

WellFormedResources ==
    {Vm(t, JList(<<Ref(NicId)>>)) : t \in TypeCases(VmType)}
    \cup {Vm(VmType, JList(<<Ref(NicId), JStr(Lower(NicId))>>)),
          Nic(NicType,
              JDict([networkSecurityGroup |-> Ref(NsgId),
                     ipConfigurations |->
                       JList(<<IpConfiguration([subnet |-> Ref(SubnetId)]),
                               IpConfiguration([subnet |-> Ref(Lower(SubnetId))])>>)])),
          Vnet(VnetType, HubId),
          Res(NsgId, "Microsoft.Network/networkSecurityGroups",
              JDict([subnets |-> JList(<<Ref(NicId)>>),
                     networkInterfaces |-> JList(<<Ref(Lower(NicId))>>)])),
          Res(<<SUBSCRIPTIONS, "lb1">>, "Microsoft.Network/loadBalancers",
              JDict([backendAddressPools |->
                       JList(<<Props(JDict([backendIPConfigurations |->
                                 JList(<<Ref(IpCfg("ipc1")), Ref(IpCfg("ipc2")),
                                         Ref(SubnetId)>>)]))>>)])),
          Res(<<SUBSCRIPTIONS, "lb2">>, "microsoft.network/loadbalancers",
              JDict([backendAddressPools |->
                       JList(<<Props(JDict([backendIPConfigurations |->
                                 JList(<<Ref(Lower(IpCfg("ipc1"))),
                                         Ref(<<SUBSCRIPTIONS, NicSegment, "nic2",
                                               "/ipConfigurations/", "ipc1">>)>>)])),
                               Props(JDict([backendIPConfigurations |->
                                 JList(<<JStr(IpCfg("ipc2")), Ref(VmId)>>)]))>>)])),
          Res(<<SUBSCRIPTIONS, "agw1">>, "Microsoft.Network/applicationGateways",
              JDict([backendAddressPools |->
                       JList(<<Props(JDict([backendAddresses |->
                                 JList(<<JDict([fqdn |-> JStr(<<"App.Contoso.Com">>)])>>)]))>>),
                     gatewayIPConfigurations |->
                       JList(<<Props(JDict([subnet |-> Ref(SubnetId)]))>>)])),
          Res(PeId, "Microsoft.Network/privateEndpoints",
              JDict([privateLinkServiceConnections |-> JList(<<Connection(SqlId)>>),
                     manualPrivateLinkServiceConnections |->
                       JList(<<Connection(Lower(SqlId))>>),
                     subnet |-> Ref(SubnetId)])),
          Res(PeId, "microsoft.network/privateendpoints",
              JDict([manualPrivateLinkServiceConnections |->
                       JList(<<Connection(SqlId)>>)])),
          Res(<<SUBSCRIPTIONS, "app1">>, "Microsoft.Web/sites",
              JDict([virtualNetworkSubnetId |-> JStr(SubnetId),
                     serverFarmId |-> JStr(PlanId)])),
          Res(SqlId, "Microsoft.Sql/servers",
              JDict([privateEndpointConnections |->
                       JList(<<Props(JDict([privateEndpoint |-> Ref(PeId)]))>>),
                     virtualNetworkRules |->
                       JList(<<Props(JDict([virtualNetworkSubnetId |-> JStr(SubnetId)])),
                               JDict([id |-> JStr(PlanId)])>>)])),
          Res(<<SUBSCRIPTIONS, "st1">>, "Microsoft.Storage/storageAccounts",
              JDict([networkProfile |-> JDict([networkInterfaces |-> JList(<<Ref(NicId)>>)])])),
          \* absent or empty parts
          Res(VmId, VmType, JNull),
          Res(VmId, VmType, JDict([networkProfile |-> JStr(<<"x">>)])),
          Nic(NicType, JDict([ipConfigurations |-> JList(<<Props(JNull)>>)])),
          JDict([type |-> JStr(<<VmType>>),
                 properties |->
                   JDict([networkProfile |->
                            JDict([networkInterfaces |-> JList(<<Ref(NicId)>>)])])])}

\* property trees with a value of the wrong kind on a well-known path
MalformedResources ==
    {Vm(VmType, JNull),
     Vm(VmType, JStr(Lower(NicId))),
     Vm(VmType, JList(<<JDict([id |-> JNum(5)])>>)),
     Vm(VmType, JList(<<JNum(5), JNull, JStr(<<"x">>)>>)),
     Nic(NicType, JDict([ipConfigurations |-> JList(<<JStr(Lower(SubnetId))>>)])),
     Res(PeId, "Microsoft.Network/privateEndpoints",
         JDict([privateLinkServiceConnections |-> JNull])),
     Res(PeId, "Microsoft.Network/privateEndpoints",
         JDict([privateLinkServiceConnections |-> JList(<<Connection(SqlId)>>),
                manualPrivateLinkServiceConnections |-> JStr(<<"x">>)])),
     JDict([id |-> JStr(VmId), type |-> JNull]),
     JDict([id |-> JNum(7), type |-> JStr(<<VmType>>)])}

Catalogue == WellFormedResources \cup MalformedResources

\* the scenario of a VM with a NIC in a subnet of a VNet that peers with a
\* second VNet
ScenarioNic(type, idcase) ==
    Nic(type,
        JDict([networkSecurityGroup |-> Ref(idcase[NsgId]),
               ipConfigurations |->
                 JList(<<IpConfiguration([subnet |-> Ref(idcase[SubnetId]),
                                          publicIPAddress |-> Ref(idcase[PipId])])>>)]))

Scenario(type_lower, id_lower) ==
    LET ty(t) == IF type_lower THEN LowerTok(t) ELSE t
        idcase == [id \in {NicId, NsgId, SubnetId, PipId, HubId} |->
                     IF id_lower THEN Lower(id) ELSE id]
    IN <<Vm(ty(VmType), JList(<<Ref(idcase[NicId])>>)),
         ScenarioNic(ty(NicType), idcase),
         Vnet(ty(VnetType), idcase[HubId])>>

LayoutIdle ==
    /\ nodes = <<>>
    /\ groups = <<>>
    /\ position = <<>>
    /\ bounding_box = <<>>
    /\ strategy = "none"
    /\ previous_strategy = "none"
    /\ layoutState = "idle"

InitRel ==
    /\ LayoutIdle
    /\ FlowIdle
    /\ CtorIdle
    /\ IpIdle
    /\ PageIdle
    /\ relationships = <<>>
    /\ relState = "ready"
    /\ runs = 0
    /\ \/ resources = <<>>
       \/ \E a \in Catalogue, copies \in 1..MaxCopies :
            resources = [i \in 1..copies |-> a]
       \/ \E a \in Catalogue, b \in Catalogue, copies \in 1..MaxCopies :
            resources = [i \in 1..copies |-> a] \o <<b>>
       \/ \E type_lower \in BOOLEAN, id_lower \in BOOLEAN, p \in Permutations(1..3) :
            resources = [i \in 1..3 |-> Scenario(type_lower, id_lower)[p[i]]]

\* One run of build_relationship_graph on the current resource list.  The
\* result is list(set): the elements in the iteration order of a set of
\* objects hashed by strings, which depends on the interpreter's hash seed
\* of that run, so any order of the elements can come out.
BuildRelationshipGraph ==
    /\ relState \in {"ready", "returned"}
    /\ runs < MaxRuns
    /\ \E out \in {build_relationship_graph(resources)} :
          /\ resources' = out.resources
          /\ runs' = runs + 1
          /\ IF out.err
             THEN /\ relState' = "raised"
                  /\ relationships' = <<>>
             ELSE /\ relState' = "returned"
                  /\ \E p \in Permutations(1..Len(out.rels)) :
                       relationships' = [i \in 1..Len(out.rels) |-> out.rels[p[i]]]
    /\ UNCHANGED <<layoutVars, flowVars, ctorVars, ipVars, pageVars>>

NextRel == BuildRelationshipGraph

SpecRel == InitRel /\ [][NextRel]_vars

\* ------------------------------------------------------------------------
\* Properties of build_relationship_graph
\* ------------------------------------------------------------------------
RelTriple(r) == <<Lower(r.source_id), Lower(r.target_id), r.relationship_type>>
RelSet(rels) == {rels[i] : i \in DOMAIN rels}

\* number of returned relationships with the given triple
CountRel(source_id, target_id, relationship_type) ==
    Cardinality({i \in DOMAIN relationships :
                   RelKey(relationships[i]) = <<source_id, target_id, relationship_type>>})

\* C2: the returned list never holds two relationships with the same
\* (source_id, target_id, relationship_type) after lower-casing the ids, and
\* every stored source_id and target_id is lower-case.
C2_NoDuplicateTriples ==
    relState = "returned" =>
        /\ \A i, j \in DOMAIN relationships :
             RelTriple(relationships[i]) = RelTriple(relationships[j]) => i = j
        /\ \A i \in DOMAIN relationships :
             /\ Lower(relationships[i].source_id) = relationships[i].source_id
             /\ Lower(relationships[i].target_id) = relationships[i].target_id

\* two copies of a VM that names the same NIC twice, in two letter cases and
\* in both reference forms, give one has_nic relationship
C2_Witness ==
    /\ relState = "returned"
    /\ Len(resources) >= 2
    /\ resources[1] = Vm(VmType, JList(<<Ref(NicId), JStr(Lower(NicId))>>))
    /\ resources[2] = resources[1]
    /\ NicId # Lower(NicId)
    /\ CountRel(Lower(VmId), Lower(NicId), "has_nic") = 1

\* C3: build_relationship_graph raises no error, whatever the shape of the
\* property trees.
C3_NeverRaises == relState # "raised"

\* C4: build_relationship_graph leaves every input resource record as it
\* was before the call.
C4_InputNotMutated == [][resources' = resources]_vars

\* C6: two runs on equal input return equal sequences.
C6_SameSequenceEveryRun ==
    [][(relState = "returned" /\ relState' = "returned" /\ resources' = resources)
         => relationships' = relationships]_vars

\* the reference (object with a string id, or raw id string) held by x
RefId(x) ==
    IF IsDict(x) /\ "id" \in DOMAIN x.d /\ IsStr(x.d["id"]) THEN x.d["id"].s
    ELSE IF IsStr(x) /\ StartsWithSubscriptions(x.s) THEN x.s
    ELSE <<>>

\* the value under a path of keys, JNull where the path leaves the dicts
RECURSIVE At(_, _)
At(x, keys) ==
    IF keys = <<>> THEN x
    ELSE IF IsDict(x) /\ Head(keys) \in DOMAIN x.d THEN At(x.d[Head(keys)], Tail(keys))
    ELSE JNull

ListAt(x, keys) == IF IsList(At(x, keys)) THEN At(x, keys).l ELSE <<>>

HasType(r, t) == IsStr(At(r, <<"type">>)) /\ Lower(At(r, <<"type">>).s) = <<t>>
IdOf(r) == IF IsStr(At(r, <<"id">>)) THEN Lower(At(r, <<"id">>).s) ELSE <<>>

\* the returned list holds exactly one relationship of the type from the
\* holder to the reference x, when x is a reference
OneRel(holder, x, relationship_type) ==
    RefId(x) # <<>> => CountRel(IdOf(holder), Lower(RefId(x)), relationship_type) = 1

\* C7: for every VM, NIC and VNet of the input, each referenced id gives
\* exactly one relationship: has_nic per VM network interface, secured_by
\* for the NIC's network security group, in_subnet and has_public_ip per
\* NIC ip configuration, peered_with per VNet peering; source is the
\* lower-cased id of the holder, target the lower-cased referenced id.
C7_ScenarioRelationships ==
    relState = "returned" =>
      \A n \in DOMAIN resources :
        LET r == resources[n]
            nics == ListAt(r, <<"properties", "networkProfile", "networkInterfaces">>)
            cfgs == ListAt(r, <<"properties", "ipConfigurations">>)
            peerings == ListAt(r, <<"properties", "virtualNetworkPeerings">>)
        IN /\ HasType(r, "microsoft.compute/virtualmachines") =>
                \A i \in DOMAIN nics : OneRel(r, nics[i], "has_nic")
           /\ HasType(r, "microsoft.network/networkinterfaces") =>
                /\ OneRel(r, At(r, <<"properties", "networkSecurityGroup">>), "secured_by")
                /\ \A i \in DOMAIN cfgs :
                     /\ OneRel(r, At(cfgs[i], <<"properties", "subnet">>), "in_subnet")
                     /\ OneRel(r, At(cfgs[i], <<"properties", "publicIPAddress">>),
                               "has_public_ip")
           /\ HasType(r, "microsoft.network/virtualnetworks") =>
                \A i \in DOMAIN peerings :
                  OneRel(r, At(peerings[i], <<"properties", "remoteVirtualNetwork">>),
                         "peered_with")

\* the scenario was run: the five relationships and nothing else
C7_Witness ==
    /\ relState = "returned"
    /\ Len(resources) = 3
    /\ \E v, n, w \in 1..3 :
         /\ HasType(resources[v], "microsoft.compute/virtualmachines")
         /\ HasType(resources[n], "microsoft.network/networkinterfaces")
         /\ HasType(resources[w], "microsoft.network/virtualnetworks")
         /\ resources[v].d["type"].s # Lower(resources[v].d["type"].s)
    /\ Len(relationships) = 5
    /\ CountRel(Lower(VmId), Lower(NicId), "has_nic") = 1
    /\ CountRel(Lower(NicId), Lower(SubnetId), "in_subnet") = 1
    /\ CountRel(Lower(NicId), Lower(NsgId), "secured_by") = 1
    /\ CountRel(Lower(NicId), Lower(PipId), "has_public_ip") = 1
    /\ CountRel(Lower(VnetId), Lower(HubId), "peered_with") = 1

\* the resource with its type string in every letter case
RetypeCases(r) ==
    IF IsStr(At(r, <<"type">>)) /\ Len(At(r, <<"type">>).s) = 1
    THEN {JDict([r.d EXCEPT !["type"] = JStr(<<t>>)]) : t \in TypeCases(r.d["type"].s[1])}
    ELSE {r}

\* C8: replacing the type string of a resource by one that differs only in
\* letter case yields the same set of relationships.
C8_TypeCaseInsensitive ==
    relState = "returned" =>
      \A n \in DOMAIN resources :
        \A r2 \in RetypeCases(resources[n]) :
          LET o == build_relationship_graph([resources EXCEPT ![n] = r2])
          IN ~o.err /\ RelSet(o.rels) = RelSet(relationships)

\* a run on a resource whose type is not written in lower case, which
\* yielded relationships
C8_Witness ==
    /\ relState = "returned"
    /\ relationships # <<>>
    /\ \E n \in DOMAIN resources :
         /\ IsStr(At(resources[n], <<"type">>))
         /\ At(resources[n], <<"type">>).s # Lower(At(resources[n], <<"type">>).s)
         /\ \E i \in DOMAIN relationships :
              relationships[i].source_id = IdOf(resources[n])

\* ========================================================================
\* discovery/data_flow.py: flows from NSG rules
\* ========================================================================
\* str.upper() on the protocol tokens
UpperTok(t) == IF t \in {"Tcp", "tcp", "TCP"} THEN "TCP" ELSE t
Upper(s) == [i \in DOMAIN s |-> UpperTok(s[i])]

\* str(x) and "{x}" in an f-string
NumStr(n) == IF n = 80 THEN "80" ELSE IF n = 443 THEN "443" ELSE "0"
Str(x) ==
    CASE x.k = "str" -> x.s
      [] x.k = "null" -> <<"None">>
      [] x.k = "num" -> <<NumStr(x.n)>>
      [] OTHER -> <<"<repr>">>

WILDCARD == JStr(<<"*">>)

\* " ".join(parts)
RECURSIVE JoinSpace(_)
JoinSpace(parts) ==
    IF parts = <<>> THEN <<>>
    ELSE IF Len(parts) = 1 THEN parts[1]
    ELSE parts[1] \o <<" ">> \o JoinSpace(Tail(parts))

_build_label_keep_wildcard(protocol, port) ==
    JoinSpace((IF Truthy(protocol) THEN <<Upper(Str(protocol))>> ELSE <<>>)
              \o (IF port # <<>> THEN <<port>> ELSE <<>>))

\* DataFlow._build_label   (data_flow.py 36-42); protocol is a JSON value,
\* port a string
_build_label(protocol, port) ==
    JoinSpace((IF Truthy(protocol) /\ protocol # WILDCARD THEN <<Upper(Str(protocol))>>
               ELSE <<>>)
              \o (IF port # <<>> /\ port # <<"*">> THEN <<port>> ELSE <<>>))

\* DataFlow.__init__   (data_flow.py 20-34)
DataFlow(source, destination, protocol, port, label, flow_type) ==
    [source |-> source,
     destination |-> destination,
     protocol |-> protocol,
     port |-> port,
     label |-> IF label # <<>> THEN label ELSE _build_label(protocol, port),
     flow_type |-> flow_type]

\* "(rule.get(key) or '').lower()"   (data_flow.py 85-86)
LowerOrEmpty(rule, key) ==
    LET x == DictGet(rule, key, JNull)
    IN IF Truthy(x) THEN Lower(x.s) ELSE <<>>

\* "access = (rule.get('access') or '').lower()" and "if access != 'allow':
\* continue"   (data_flow.py 85-90): does the rule pass the access test
access_is_allow_unless_deny(rule) == LowerOrEmpty(rule, "access") # <<"deny">>

access_is_allow(rule) == LowerOrEmpty(rule, "access") = <<"allow">>

\* "direction = (rule.get('direction') or '').lower()"   (data_flow.py 86)
rule_direction_keep_case(rule) ==
    LET x == DictGet(rule, "direction", JNull)
    IN IF Truthy(x) THEN x.s ELSE <<>>

rule_direction(rule) == LowerOrEmpty(rule, "direction")

\* lines 85-131 for one rule: the flows it appends (none or one), or an
\* exception when a truthy access, direction or protocol is not a string
rule_flows(rule) ==
    LET a == DictGet(rule, "access", JNull)
        d == DictGet(rule, "direction", JNull)
        source == DictGet(rule, "sourceAddressPrefix", WILDCARD)
        destination == DictGet(rule, "destinationAddressPrefix", WILDCARD)
        protocol == DictGet(rule, "protocol", WILDCARD)
        dest_port == DictGet(rule, "destinationPortRange", WILDCARD)
        nsg_name == DictGet(rule, "nsgName", JStr(<<>>))
        label == JoinSpace((IF Truthy(protocol) /\ protocol # WILDCARD
                            THEN <<Upper(Str(protocol))>> ELSE <<>>)
                           \o (IF Truthy(dest_port) /\ dest_port # WILDCARD
                               THEN <<Str(dest_port)>> ELSE <<>>))
    IN IF (Truthy(a) /\ ~IsStr(a)) \/ (Truthy(d) /\ ~IsStr(d))
       THEN [err |-> TRUE, flows |-> <<>>]
       ELSE IF ~access_is_allow(rule)
       THEN [err |-> FALSE, flows |-> <<>>]
       ELSE IF source = WILDCARD /\ destination = WILDCARD
       THEN [err |-> FALSE, flows |-> <<>>]
       ELSE IF Truthy(protocol) /\ protocol # WILDCARD /\ ~IsStr(protocol)
       THEN [err |-> TRUE, flows |-> <<>>]
       ELSE IF rule_direction(rule) = <<"inbound">>
       THEN [err |-> FALSE,
             flows |-> <<DataFlow(source,
                                  JStr(Str(nsg_name) \o <<" (">> \o Str(destination) \o <<")">>),
                                  protocol, Str(dest_port), label, "network")>>]
       ELSE IF rule_direction(rule) = <<"outbound">>
       THEN [err |-> FALSE,
             flows |-> <<DataFlow(JStr(Str(nsg_name) \o <<" (">> \o Str(source) \o <<")">>),
                                  destination,
                                  protocol, Str(dest_port), label, "network")>>]
       ELSE [err |-> FALSE, flows |-> <<>>]

RECURSIVE ConcatFlows(_, _)
ConcatFlows(rs, n) == IF n = 0 THEN <<>> ELSE ConcatFlows(rs, n - 1) \o rs[n].flows

\* _flows_from_nsg_rules   (data_flow.py 76-133)
_flows_from_nsg_rules(rules) ==
    LET rs == [i \in DOMAIN rules |-> rule_flows(rules[i])]
    IN IF \E i \in DOMAIN rs : rs[i].err THEN [err |-> TRUE, flows |-> <<>>]
       ELSE [err |-> FALSE, flows |-> ConcatFlows(rs, Len(rs))]

\* ------------------------------------------------------------------------
\* Input rules: the fields discover_nsg_rules projects; a field is a
\* string, null or absent, the port also a number
\* ------------------------------------------------------------------------
Absent == [k |-> "absent"]

MkRule(access, direction, source, destination, protocol, port, nsg_name) ==
    LET f == [access |-> access, direction |-> direction,
              sourceAddressPrefix |-> source,
              destinationAddressPrefix |-> destination,
              protocol |-> protocol, destinationPortRange |-> port,
              nsgName |-> nsg_name]
        present == {key \in DOMAIN f : f[key] # Absent}
    IN JDict([key \in present |-> f[key]])

AccessValues == {Absent, JNull, JStr(<<"Allow">>), JStr(<<"ALLOW">>), JStr(<<"Deny">>)}
DirectionValues == {Absent, JStr(<<"Inbound">>), JStr(<<"OUTBOUND">>), JStr(<<"Both">>)}
PrefixValues == {Absent, JNull, WILDCARD, JStr(<<"Internet">>)}
ProtocolValues == {Absent, WILDCARD, JStr(<<"Tcp">>)}
PortValues == {Absent, WILDCARD, JStr(<<"80">>), JNum(80)}

Rules ==
    {MkRule(a, d, s, t, p, o, JStr(<<"web-nsg">>)) :
        a \in AccessValues, d \in DirectionValues, s \in PrefixValues,
        t \in PrefixValues, p \in ProtocolValues, o \in PortValues}

\* rules that follow the first one of a list
MoreRules ==
    {MkRule(JStr(<<"Allow">>), JStr(<<"Inbound">>), JStr(<<"Internet">>),
            JStr(<<"10.0.1.0/24">>), JStr(<<"Tcp">>), JStr(<<"443">>), JStr(<<"web-nsg">>)),
     MkRule(JStr(<<"allow">>), JStr(<<"outbound">>), WILDCARD,
            JStr(<<"Internet">>), JNull, JNull, Absent),
     MkRule(JStr(<<"Allow">>), JStr(<<"Inbound">>), WILDCARD, WILDCARD,
            JStr(<<"Tcp">>), JStr(<<"80">>), JStr(<<"web-nsg">>))}

InitFlows ==
    /\ LayoutIdle
    /\ RelIdle
    /\ CtorIdle
    /\ IpIdle
    /\ PageIdle
    /\ flows = <<>>
    /\ flowState = "ready"
    /\ \/ nsg_rules = <<>>
       \/ \E r \in Rules, n \in 0..(MaxRules - 1) :
            \E more \in [1..n -> MoreRules] : nsg_rules = <<r>> \o more

\* _flows_from_nsg_rules(nsg_rules)
FlowsFromNsgRules ==
    /\ flowState = "ready"
    /\ \E out \in {_flows_from_nsg_rules(nsg_rules)} :
         /\ flows' = out.flows
         /\ flowState' = IF out.err THEN "raised" ELSE "done"
    /\ UNCHANGED <<nsg_rules, layoutVars, relVars, ctorVars, ipVars, pageVars>>

NextFlows == FlowsFromNsgRules

SpecFlows == InitFlows /\ [][NextFlows]_vars

\* ------------------------------------------------------------------------
\* Properties of the NSG-rule flows
\* ------------------------------------------------------------------------
\* what a rule says, an absent field read as the documented default
FieldOf(rule, key, default) == IF key \in DOMAIN rule.d THEN rule.d[key] ELSE default
TextOf(rule, key) ==
    LET x == FieldOf(rule, key, JNull)
    IN IF IsStr(x) THEN Lower(x.s) ELSE <<>>
Allows(rule) == TextOf(rule, "access") = <<"allow">>
SourcePrefix(rule) == FieldOf(rule, "sourceAddressPrefix", WILDCARD)
DestinationPrefix(rule) == FieldOf(rule, "destinationAddressPrefix", WILDCARD)
BothWildcard(rule) == SourcePrefix(rule) = WILDCARD /\ DestinationPrefix(rule) = WILDCARD
Named(rule, prefix) ==
    JStr(Str(FieldOf(rule, "nsgName", JStr(<<>>))) \o <<" (">> \o Str(prefix) \o <<")">>)

Produces(rule) ==
    /\ Allows(rule)
    /\ ~BothWildcard(rule)
    /\ TextOf(rule, "direction") \in {<<"inbound">>, <<"outbound">>}

FlowOfRule(f, rule) ==
    /\ f.flow_type = "network"
    /\ FieldOf(rule, "destinationPortRange", WILDCARD) \in {JStr(<<"80">>), JNum(80)}
          => f.port = <<"80">>
    /\ IF TextOf(rule, "direction") = <<"inbound">>
       THEN /\ f.source = SourcePrefix(rule)
            /\ f.destination = Named(rule, DestinationPrefix(rule))
       ELSE /\ f.source = Named(rule, SourcePrefix(rule))
            /\ f.destination = DestinationPrefix(rule)

ProtocolArgs == {JStr(<<>>), WILDCARD, JNull, JStr(<<"TCP">>), JStr(<<"Tcp">>), JStr(<<"tcp">>)}
PortArgs == {<<>>, <<"*">>, <<"443">>, <<"80">>}
LabelArgs == {<<>>, <<"HTTPS in">>, <<"Private Link -> ", "SQL1">>}
EndpointArgs == {JStr(<<"a">>), JStr(<<"web-nsg", " (", "*", ")">>)}

InitCtor ==
    /\ LayoutIdle
    /\ RelIdle
    /\ FlowIdle
    /\ IpIdle
    /\ PageIdle
    /\ df = <<>>
    /\ dfState = "ready"
    /\ df_args \in [source : EndpointArgs, destination : {JStr(<<"b">>)},
                    protocol : ProtocolArgs, port : PortArgs, label : LabelArgs,
                    flow_type : {"network", "private_link"}]

\* DataFlow(source, destination, protocol, port, label, flow_type)
NewDataFlow ==
    /\ dfState = "ready"
    /\ df' = DataFlow(df_args.source, df_args.destination, df_args.protocol,
                      df_args.port, df_args.label, df_args.flow_type)
    /\ dfState' = "created"
    /\ UNCHANGED <<df_args, layoutVars, relVars, flowVars, ipVars, pageVars>>

NextCtor == NewDataFlow

SpecCtor == InitCtor /\ [][NextCtor]_vars

\* the part a protocol or port contributes to the label: nothing when it
\* is empty, null or "*"
LabelPart(text) == IF text \in {<<>>, <<"*">>} THEN <<>> ELSE <<text>>
ProtocolText(protocol) == IF IsStr(protocol) THEN protocol.s ELSE <<>>

\* C11: a DataFlow built without a label is labelled with the upper-cased
\* protocol, one space, the port, a part that is empty or "*" left out (the
\* empty string when both are); a non-empty label given by the caller is
\* kept as it is.
C11_LabelFromProtocolAndPort ==
    dfState = "created" =>
        LET proto == LabelPart(Upper(ProtocolText(df_args.protocol)))
            port == LabelPart(df_args.port)
            built == IF proto # <<>> /\ port # <<>> THEN proto[1] \o <<" ">> \o port[1]
                     ELSE IF proto # <<>> THEN proto[1]
                     ELSE IF port # <<>> THEN port[1]
                     ELSE <<>>
        IN df.label = IF df_args.label # <<>> THEN df_args.label ELSE built

\* protocol "Tcp", port "443" and no label: the object is labelled "TCP 443"
C11_Witness ==
    /\ dfState = "created"
    /\ df_args.protocol = JStr(<<"Tcp">>)
    /\ df_args.port = <<"443">>
    /\ df_args.label = <<>>
    /\ df.label = <<"TCP", " ", "443">>

\* ========================================================================
\* discovery/data_flow.py: flows from private endpoints
\* ========================================================================
\* str.split("/") of one token: the pieces between its slashes, each piece a
\* string; a token that is not listed holds no slash
SplitTok(t) ==
    CASE t \in {"/subscriptions/"} -> << <<>>, <<"subscriptions">>, <<>> >>
      [] t = "/Subnets/" -> << <<>>, <<"Subnets">>, <<>> >>
      [] t = "/subnets/" -> << <<>>, <<"subnets">>, <<>> >>
      [] t = "/privateEndpoints/" -> << <<>>, <<"privateEndpoints">>, <<>> >>
      [] t = "/privateendpoints/" -> << <<>>, <<"privateendpoints">>, <<>> >>
      [] t = "/ipConfigurations/" -> << <<>>, <<"ipConfigurations">>, <<>> >>
      [] t = "/ipconfigurations/" -> << <<>>, <<"ipconfigurations">>, <<>> >>
      [] t = "/networkSecurityGroups/" -> << <<>>, <<"networkSecurityGroups">>, <<>> >>
      [] t = "/networksecuritygroups/" -> << <<>>, <<"networksecuritygroups">>, <<>> >>
      [] t = "/Microsoft.Network/networkInterfaces/"
           -> << <<>>, <<"Microsoft.Network">>, <<"networkInterfaces">>, <<>> >>
      [] t = "/microsoft.network/networkinterfaces/"
           -> << <<>>, <<"microsoft.network">>, <<"networkinterfaces">>, <<>> >>
      [] t = "/" -> << <<>>, <<>> >>
      [] OTHER -> << <<t>> >>

\* str.split("/"): the parts of a string, never an empty list
RECURSIVE Split(_)
Split(s) ==
    IF s = <<>> THEN << <<>> >>
    ELSE LET parts == Split(SubSeq(s, 1, Len(s) - 1))
             more == SplitTok(s[Len(s)])
         IN SubSeq(parts, 1, Len(parts) - 1)
            \o << parts[Len(parts)] \o more[1] >>
            \o Tail(more)

\* the parts of s.rstrip("/"): trailing empty parts go, one part stays
RECURSIVE SplitStripped(_)
SplitStripped(parts) ==
    IF Len(parts) > 1 /\ parts[Len(parts)] = <<>>
    THEN SplitStripped(SubSeq(parts, 1, Len(parts) - 1))
    ELSE parts

\* _extract_name_from_id   (data_flow.py 278-283)
_extract_name_from_id(resource_id) ==
    IF resource_id = <<>> THEN <<"Unknown">>
    ELSE LET parts == SplitStripped(Split(resource_id))
         IN parts[Len(parts)]

\* dict[key] = value on a dict kept as its items in insertion order
DictPut(items, key, value) ==
    IF \E i \in DOMAIN items : items[i].key = key
    THEN [i \in DOMAIN items |->
            IF items[i].key = key THEN [key |-> key, value |-> value] ELSE items[i]]
    ELSE Append(items, [key |-> key, value |-> value])

\* dict.get(key, default) on such a dict
DictItemsGet(items, key, default) ==
    IF \E i \in DOMAIN items : items[i].key = key
    THEN items[CHOOSE i \in DOMAIN items : items[i].key = key].value
    ELSE default

\* lines 151-155: pe_to_service / pe_to_subnet after the first n relationships
RECURSIVE pe_to_service(_, _)
pe_to_service(rels, n) ==
    IF n = 0 THEN <<>>
    ELSE LET acc == pe_to_service(rels, n - 1)
         IN IF rels[n].relationship_type = "private_link_to"
            THEN DictPut(acc, rels[n].source_id, rels[n].target_id)
            ELSE acc

RECURSIVE pe_to_subnet(_, _)
pe_to_subnet(rels, n) ==
    IF n = 0 THEN <<>>
    ELSE LET acc == pe_to_subnet(rels, n - 1)
         IN IF /\ rels[n].relationship_type # "private_link_to"
               /\ rels[n].relationship_type = "in_subnet"
               /\ Contains(rels[n].source_id, "/privateendpoints/")
            THEN DictPut(acc, rels[n].source_id, rels[n].target_id)
            ELSE acc

\* lines 158-162: resource_names after the first n resources
RECURSIVE resource_names(_, _)
resource_names(rs, n) ==
    IF n = 0 THEN <<>>
    ELSE LET acc == resource_names(rs, n - 1)
             r == rs[n]
         IN IF "id" \in DOMAIN r.d
            THEN DictPut(acc, Lower(r.d["id"].s),
                         DictGet(r, "name", JStr(Split(r.d["id"].s)[Len(Split(r.d["id"].s))])))
            ELSE acc

\* the comprehension raises for a resource that is no dict or whose id is
\* not a string
NamesRaise(rs) ==
    \E i \in DOMAIN rs : ~IsDict(rs[i]) \/ ("id" \in DOMAIN rs[i].d /\ ~IsStr(rs[i].d["id"]))

\* lines 164-178 for one item of pe_to_service
pe_flow(item, subnets, names) ==
    LET subnet_id == DictItemsGet(subnets, item.key, <<>>)
        extracted == _extract_name_from_id(subnet_id)
        source_name == IF extracted # <<>> THEN extracted ELSE <<"VNet">>
        target_name == DictItemsGet(names, Lower(item.value),
                                    JStr(_extract_name_from_id(item.value)))
    IN DataFlow(JStr(source_name), target_name, JStr(<<"TCP">>), <<"443">>,
                <<"Private Link -> ">> \o Str(target_name), "private_link")

\* _flows_from_private_endpoints   (data_flow.py 136-180)
_flows_from_private_endpoints(rs, rels) ==
    IF NamesRaise(rs) THEN [err |-> TRUE, flows |-> <<>>]
    ELSE LET services == pe_to_service(rels, Len(rels))
             subnets == pe_to_subnet(rels, Len(rels))
             names == resource_names(rs, Len(rs))
         IN [err |-> FALSE,
             flows |-> [i \in DOMAIN services |-> pe_flow(services[i], subnets, names)]]

\* ========================================================================
\* discovery/data_flow.py: service endpoints, diagnostic settings and the
\* whole of discover_data_flows.  Ok / Raise / Then / ForEach carry the
\* flows a piece of code appends.
\* ========================================================================
\* "x.get(...)" on the properties found: AttributeError when they are truthy
\* and no dict
WithDictProps(item, Body(_)) ==
    WithProps(item, LAMBDA p : IF IsDict(p) THEN Body(p) ELSE Raise)

\* lines 204-215 for one endpoint
service_endpoint_flow(vnet_name, subnet_name, endpoint) ==
    IF ~IsDict(endpoint) THEN Raise
    ELSE LET service == DictGet(endpoint, "service", JStr(<<>>))
         IN IF Truthy(service)
            THEN Ok(<<DataFlow(JStr(Str(vnet_name) \o <<"/">> \o Str(subnet_name)),
                               service, JStr(<<"TCP">>), <<>>,
                               <<"Service Endpoint: ">> \o Str(service),
                               "service_endpoint")>>)
            ELSE Ok(<<>>)

\* lines 190-215 for one resource
service_endpoint_flows(resource) ==
    IF ~IsDict(resource) THEN Raise
    ELSE LET t == DictGet(resource, "type", JNull)
         IN IF Truthy(t) /\ ~IsStr(t) THEN Raise
            ELSE IF (IF Truthy(t) THEN Lower(t.s) ELSE <<>>)
                      # <<"microsoft.network/virtualnetworks">>
            THEN Ok(<<>>)
            ELSE WithDictProps(resource, LAMBDA props :
                   ForEach(DictGet(props, "subnets", EmptyList), LAMBDA subnet :
                     WithDictProps(subnet, LAMBDA subnet_props :
                       ForEach(DictGet(subnet_props, "serviceEndpoints", EmptyList),
                               LAMBDA endpoint :
                                 service_endpoint_flow(
                                     DictGet(resource, "name", JStr(<<>>)),
                                     DictGet(subnet, "name", JStr(<<>>)),
                                     endpoint)))))

\* _flows_from_service_endpoints   (data_flow.py 183-217)
_flows_from_service_endpoints(rs) ==
    ForEach(JList(rs), service_endpoint_flows)

\* "sink_id = setting_props.get(key); if sink_id: flows.append(...)"
diagnostic_flow(resource_name, sink_id, label) ==
    IF ~Truthy(sink_id) THEN Ok(<<>>)
    ELSE IF ~IsStr(sink_id) THEN Raise
    ELSE Ok(<<DataFlow(resource_name, JStr(_extract_name_from_id(sink_id.s)),
                       JStr(<<>>), <<>>, label, "diagnostic")>>)

\* lines 231-273 for one resource
diagnostic_flows(resource) ==
    WithDictProps(resource, LAMBDA props :
      ForEach(DictGet(props, "diagnosticSettings", EmptyList), LAMBDA setting :
        WithDictProps(setting, LAMBDA sp :
          Then(diagnostic_flow(DictGet(resource, "name", JStr(<<>>)),
                               DictGet(sp, "workspaceId", JNull),
                               <<"Diagnostics -> Log Analytics">>),
               Then(diagnostic_flow(DictGet(resource, "name", JStr(<<>>)),
                                    DictGet(sp, "storageAccountId", JNull),
                                    <<"Diagnostics -> Storage">>),
                    diagnostic_flow(DictGet(resource, "name", JStr(<<>>)),
                                    DictGet(sp, "eventHubAuthorizationRuleId", JNull),
                                    <<"Diagnostics -> Event Hub">>))))))

\* _flows_from_diagnostic_settings   (data_flow.py 220-275)
_flows_from_diagnostic_settings(rs) ==
    ForEach(JList(rs), diagnostic_flows)

\* discover_data_flows   (data_flow.py 48-73)
discover_data_flows(rs, rels, rules) ==
    LET nsg == IF rules # <<>> THEN _flows_from_nsg_rules(rules)
               ELSE [err |-> FALSE, flows |-> <<>>]
        pe == _flows_from_private_endpoints(rs, rels)
        se == _flows_from_service_endpoints(rs)
        diag == _flows_from_diagnostic_settings(rs)
    IN IF nsg.err \/ pe.err \/ se.err \/ diag.err THEN [err |-> TRUE, flows |-> <<>>]
       ELSE [err |-> FALSE, flows |-> nsg.flows \o pe.flows \o se.rels \o diag.rels]

\* ------------------------------------------------------------------------
\* Inputs of discover_data_flows: resources as discovery returns them (with
\* a name, or without one), the relationships build_relationship_graph
\* infers from them in any order, and a rule list
\* ------------------------------------------------------------------------
Pe2Id == <<SUBSCRIPTIONS, "/privateEndpoints/", "PE2">>
StId == <<SUBSCRIPTIONS, "ST1">>
WorkspaceId == <<SUBSCRIPTIONS, "law1", "/">>

WithName(resource, name) == JDict(resource.d @@ [name |-> JStr(<<name>>)])

DiscoverPool ==
    {WithName(Res(PeId, "Microsoft.Network/privateEndpoints",
                  JDict([privateLinkServiceConnections |-> JList(<<Connection(SqlId)>>),
                         subnet |-> Ref(SubnetId)])), "PE1"),
     Res(PeId, "Microsoft.Network/privateEndpoints",
         JDict([privateLinkServiceConnections |->
                  JList(<<Connection(StId), Connection(SqlId)>>),
                subnet |-> Ref(SubnetId)])),
     WithName(Res(Pe2Id, "microsoft.network/privateendpoints",
                  JDict([privateLinkServiceConnections |-> JList(<<Connection(StId)>>)])),
              "PE2"),
     WithName(Res(SqlId, "Microsoft.Sql/servers", EmptyDict), "sql-prod"),
     Res(SqlId, "Microsoft.Sql/servers",
         JDict([diagnosticSettings |->
                  JList(<<Props(JDict([workspaceId |-> JStr(WorkspaceId),
                                       storageAccountId |-> JStr(StId)]))>>)])),
     WithName(Res(VnetId, VnetType,
                  JDict([subnets |->
                           JList(<<JDict([name |-> JStr(<<"Web">>),
                                          properties |->
                                            JDict([serviceEndpoints |->
                                                     JList(<<JDict([service |-> JStr(<<"Microsoft.Sql">>)]),
                                                             JDict([service |-> JStr(<<>>)])>>)])])>>)])),
              "Vnet1")}

SAMPLE_NSG_RULES ==
    <<MkRule(JStr(<<"Allow">>), JStr(<<"Inbound">>), JStr(<<"Internet">>),
             JStr(<<"10.0.1.0/24">>), JStr(<<"Tcp">>), JStr(<<"80">>), JStr(<<"web-nsg">>)),
      MkRule(JStr(<<"Deny">>), JStr(<<"Inbound">>), WILDCARD, WILDCARD,
             WILDCARD, WILDCARD, JStr(<<"web-nsg">>))>>

RuleLists ==
    {<<>>, SAMPLE_NSG_RULES,
     <<MkRule(JStr(<<"Deny">>), JStr(<<"Inbound">>), JStr(<<"Internet">>),
              JStr(<<"10.0.1.0/24">>), JStr(<<"Tcp">>), JStr(<<"22">>), JStr(<<"web-nsg">>))>>}

\* sequences of n distinct elements of S
RECURSIVE DistinctSeqs(_, _)
DistinctSeqs(S, n) ==
    IF n = 0 THEN {<<>>}
    ELSE UNION {{Append(q, e) : e \in S \ {q[i] : i \in DOMAIN q}} :
                  q \in DistinctSeqs(S, n - 1)}

InitDiscover ==
    /\ LayoutIdle
    /\ CtorIdle
    /\ IpIdle
    /\ PageIdle
    /\ runs = 0
    /\ relState = "given"
    /\ flows = <<>>
    /\ flowState = "ready"
    /\ nsg_rules \in RuleLists
    /\ \E n \in 0..MaxResources : resources \in DistinctSeqs(DiscoverPool, n)
    /\ \E out \in {build_relationship_graph(resources)} :
         \E p \in Permutations(1..Len(out.rels)) :
            relationships = [i \in 1..Len(out.rels) |-> out.rels[p[i]]]

\* _flows_from_private_endpoints(resources, relationships)
FlowsFromPrivateEndpoints ==
    /\ flowState = "ready"
    /\ \E out \in {_flows_from_private_endpoints(resources, relationships)} :
         /\ flows' = out.flows
         /\ flowState' = IF out.err THEN "raised" ELSE "pe_done"
    /\ UNCHANGED <<nsg_rules, layoutVars, relVars, ctorVars, ipVars, pageVars>>

\* discover_data_flows(resources, relationships, nsg_rules)
DiscoverDataFlows ==
    /\ flowState = "ready"
    /\ \E out \in {discover_data_flows(resources, relationships, nsg_rules)} :
         /\ flows' = out.flows
         /\ flowState' = IF out.err THEN "raised" ELSE "discovered"
    /\ UNCHANGED <<nsg_rules, layoutVars, relVars, ctorVars, ipVars, pageVars>>

NextDiscover == FlowsFromPrivateEndpoints \/ DiscoverDataFlows

SpecDiscover == InitDiscover /\ [][NextDiscover]_vars

\* ------------------------------------------------------------------------
\* Properties of the private-endpoint flows
\* ------------------------------------------------------------------------
RelsOf(type) ==
    {relationships[i] : i \in {j \in DOMAIN relationships :
                                 relationships[j].relationship_type = type}}
LinkedEndpoints == {r.source_id : r \in RelsOf("private_link_to")}
TargetsOf(pe) == {r.target_id : r \in {q \in RelsOf("private_link_to") : q.source_id = pe}}
SubnetsOf(pe) == {r.target_id : r \in {q \in RelsOf("in_subnet") : q.source_id = pe}}

\* the last "/"-separated part of an id
LastPart(id) == LET parts == SplitStripped(Split(id)) IN parts[Len(parts)]

\* the names of a service: the name of a resource of the input with that
\* id, or the last part of the id when no such resource carries a name
ServiceNames(target) ==
    LET named == {i \in DOMAIN resources :
                    /\ "id" \in DOMAIN resources[i].d
                    /\ Lower(resources[i].d["id"].s) = target
                    /\ "name" \in DOMAIN resources[i].d}
    IN IF named # {} THEN {resources[i].d["name"] : i \in named}
       ELSE IF \E i \in DOMAIN resources : Lower(resources[i].d["id"].s) = target
       THEN {JStr(LastPart(target))} \cup
            {JStr(LastPart(resources[i].d["id"].s)) :
                i \in {j \in DOMAIN resources : Lower(resources[j].d["id"].s) = target}}
       ELSE {JStr(LastPart(target))}

PrivateLinkFlow(f, pe) ==
    /\ f.flow_type = "private_link"
    /\ f.protocol = JStr(<<"TCP">>)
    /\ f.port = <<"443">>
    /\ \E target \in TargetsOf(pe) :
         /\ f.destination \in ServiceNames(target)
         /\ f.label = <<"Private Link -> ">> \o f.destination.s
    /\ IF SubnetsOf(pe) = {}
       THEN f.source = JStr(<<"VNet">>)
       ELSE \E subnet \in SubnetsOf(pe) : f.source = JStr(LastPart(subnet))

\* C12: the private-endpoint derivation gives exactly one flow for every
\* private endpoint that is the source of a private_link_to relationship
\* and no other flow: flow_type private_link, protocol TCP, port 443,
\* destination the name of the target service, label "Private Link ->
\* <target name>", source the name of the endpoint's subnet when an
\* in_subnet relationship of the endpoint exists and "VNet" otherwise.
C12_OneFlowPerLinkedEndpoint ==
    flowState = "pe_done" =>
        /\ Len(flows) = Cardinality(LinkedEndpoints)
        /\ \E b \in [DOMAIN flows -> LinkedEndpoints] :
             /\ \A i, j \in DOMAIN flows : b[i] = b[j] => i = j
             /\ \A i \in DOMAIN flows : PrivateLinkFlow(flows[i], b[i])

\* ------------------------------------------------------------------------
\* Deny rules in discover_data_flows
\* ------------------------------------------------------------------------
\* getattr(f, "access") of a DataFlow: the attributes are the fields that
\* __init__ sets
HasAccess(f, value) == "access" \in DOMAIN f /\ f["access"] = value

\* C13: discover_data_flows, given rules that include a Deny rule, returns
\* at least one flow whose access attribute is "Deny", and the label of
\* every flow with access "Deny" contains "DENY".
C13_DenyRulesGiveDenyFlows ==
    (/\ flowState = "discovered"
     /\ \E i \in DOMAIN nsg_rules : FieldOf(nsg_rules[i], "access", JNull) = JStr(<<"Deny">>))
    => /\ \E j \in DOMAIN flows : HasAccess(flows[j], <<"Deny">>)
       /\ \A j \in DOMAIN flows :
            HasAccess(flows[j], <<"Deny">>) => Contains(flows[j].label, "DENY")

\* ========================================================================
\* discovery/ip_resolver.py: IPResolver
\* ========================================================================
LowerOrEmptyOf_keep_case(x, key) ==
    LET v == DictGet(x, key, JNull)
    IN IF ~Truthy(v) THEN [err |-> FALSE, s |-> <<>>]
       ELSE IF IsStr(v) THEN [err |-> FALSE, s |-> v.s]
       ELSE [err |-> TRUE, s |-> <<>>]

\* "(x.get(key) or '').lower()": [err, s]
LowerOrEmptyOf(x, key) ==
    LET v == DictGet(x, key, JNull)
    IN IF ~Truthy(v) THEN [err |-> FALSE, s |-> <<>>]
       ELSE IF IsStr(v) THEN [err |-> FALSE, s |-> Lower(v.s)]
       ELSE [err |-> TRUE, s |-> <<>>]

\* "x.get('properties') or {}": the dict the code goes on with, or JNull
\* when what it found is truthy and has no .get
PropsOrEmpty(x, key) ==
    LET v == DictGet(x, key, JNull)
    IN IF ~Truthy(v) THEN EmptyDict ELSE IF IsDict(v) THEN v ELSE JNull

\* "(ref.get('id') or '').lower() if isinstance(ref, dict) else ''" for
\* ref = holder.get(key) or {}
RefIdLower(holder, key) ==
    LET v == DictGet(holder, key, JNull)
        ref == IF Truthy(v) THEN v ELSE EmptyDict
    IN IF IsDict(ref) THEN LowerOrEmptyOf(ref, "id") ELSE [err |-> FALSE, s |-> <<>>]

\* d.setdefault(key, []).append(value)
ListAppend(items, key, value) ==
    DictPut(items, key, Append(DictItemsGet(items, key, <<>>), value))

IndexError == [err |-> TRUE, nic_private_ips |-> <<>>, nic_public_ip_ids |-> <<>>,
               public_ip_addresses |-> <<>>]

\* lines 33-41 for the ip configurations from position i on
RECURSIVE index_ip_configs(_, _, _, _)
index_ip_configs(ix, rid, cfgs, i) ==
    IF i > Len(cfgs) THEN ix
    ELSE IF ~IsDict(cfgs[i]) THEN IndexError
    ELSE LET ip_props == PropsOrEmpty(cfgs[i], "properties")
         IN IF ~IsDict(ip_props) THEN IndexError
            ELSE LET priv_ip == DictGet(ip_props, "privateIPAddress", JStr(<<>>))
                     pip_id == RefIdLower(ip_props, "publicIPAddress")
                     a == IF Truthy(priv_ip)
                          THEN [ix EXCEPT !.nic_private_ips = ListAppend(@, rid, priv_ip)]
                          ELSE ix
                 IN IF pip_id.err THEN IndexError
                    ELSE index_ip_configs(
                           IF pip_id.s # <<>>
                           THEN [a EXCEPT !.nic_public_ip_ids = ListAppend(@, rid, pip_id.s)]
                           ELSE a,
                           rid, cfgs, i + 1)

\* lines 23-41 for one resource
index_resource(ix, resource) ==
    IF ~IsDict(resource) THEN IndexError
    ELSE LET rid == LowerOrEmptyOf(resource, "id")
             rtype == LowerOrEmptyOf(resource, "type")
             props == PropsOrEmpty(resource, "properties")
         IN IF rid.err \/ rtype.err THEN IndexError
            ELSE IF rtype.s = <<"microsoft.network/publicipaddresses">>
            THEN IF ~IsDict(props) THEN IndexError
                 ELSE LET ip_addr == DictGet(props, "ipAddress", JStr(<<>>))
                      IN IF Truthy(ip_addr)
                         THEN [ix EXCEPT !.public_ip_addresses = DictPut(@, rid.s, ip_addr)]
                         ELSE ix
            ELSE IF rtype.s = <<"microsoft.network/networkinterfaces">>
            THEN IF ~IsDict(props) THEN IndexError
                 ELSE LET cfgs == DictGet(props, "ipConfigurations", EmptyList)
                      IN IF ~Iterable(cfgs) THEN IndexError
                         ELSE index_ip_configs(ix, rid.s, Items(cfgs), 1)
            ELSE ix

\* IPResolver.__init__ / _build_indexes   (ip_resolver.py 15-41)
RECURSIVE _build_indexes(_, _)
_build_indexes(rs, n) ==
    IF n = 0
    THEN [err |-> FALSE, nic_private_ips |-> <<>>, nic_public_ip_ids |-> <<>>,
          public_ip_addresses |-> <<>>]
    ELSE LET ix == _build_indexes(rs, n - 1)
         IN IF ix.err THEN ix ELSE index_resource(ix, rs[n])

IPResolver(rs) == _build_indexes(rs, Len(rs))

IpsError == [err |-> TRUE, ips |-> <<>>]

\* lines 54-57: the "pub: " entries of the public ip ids from position i on
RECURSIVE pub_entries(_, _, _)
pub_entries(ix, pip_ids, i) ==
    IF i > Len(pip_ids) THEN <<>>
    ELSE LET pub_ip == DictItemsGet(ix.public_ip_addresses, pip_ids[i], JStr(<<>>))
         IN (IF Truthy(pub_ip) THEN << <<"pub: ">> \o Str(pub_ip) >> ELSE <<>>)
            \o pub_entries(ix, pip_ids, i + 1)

\* lines 48-57 for the nic references from position i on
RECURSIVE vm_nic_entries(_, _, _)
vm_nic_entries(ix, nic_refs, i) ==
    IF i > Len(nic_refs) THEN [err |-> FALSE, ips |-> <<>>]
    ELSE LET nic_id == IF IsDict(nic_refs[i]) THEN LowerOrEmptyOf(nic_refs[i], "id")
                       ELSE [err |-> FALSE, s |-> <<>>]
             rest == vm_nic_entries(ix, nic_refs, i + 1)
         IN IF nic_id.err \/ rest.err THEN IpsError
            ELSE IF nic_id.s = <<>> THEN rest
            ELSE LET privs == DictItemsGet(ix.nic_private_ips, nic_id.s, <<>>)
                     pubs == DictItemsGet(ix.nic_public_ip_ids, nic_id.s, <<>>)
                 IN [err |-> FALSE,
                     ips |-> [k \in DOMAIN privs |-> <<"priv: ">> \o Str(privs[k])]
                             \o pub_entries(ix, pubs, 1)
                             \o rest.ips]

\* IPResolver.get_vm_ips   (ip_resolver.py 43-58)
get_vm_ips(ix, vm_resource) ==
    IF ~IsDict(vm_resource) THEN IpsError
    ELSE LET props == PropsOrEmpty(vm_resource, "properties")
         IN IF ~IsDict(props) THEN IpsError
            ELSE LET profile == PropsOrEmpty(props, "networkProfile")
                 IN IF ~IsDict(profile) THEN IpsError
                    ELSE LET nic_refs == DictGet(profile, "networkInterfaces", EmptyList)
                         IN IF ~Iterable(nic_refs) THEN IpsError
                            ELSE vm_nic_entries(ix, Items(nic_refs), 1)

\* lines 64-74 for the frontend configurations from position i on
RECURSIVE frontend_entries(_, _, _)
frontend_entries(ix, cfgs, i) ==
    IF i > Len(cfgs) THEN [err |-> FALSE, ips |-> <<>>]
    ELSE IF ~IsDict(cfgs[i]) THEN IpsError
    ELSE LET fe_props == PropsOrEmpty(cfgs[i], "properties")
             rest == frontend_entries(ix, cfgs, i + 1)
         IN IF ~IsDict(fe_props) \/ rest.err THEN IpsError
            ELSE LET priv_ip == DictGet(fe_props, "privateIPAddress", JStr(<<>>))
                     pip_id == RefIdLower(fe_props, "publicIPAddress")
                     pub_ip == DictItemsGet(ix.public_ip_addresses, pip_id.s, JStr(<<>>))
                 IN IF pip_id.err THEN IpsError
                    ELSE [err |-> FALSE,
                          ips |-> (IF Truthy(priv_ip) THEN << <<"fe: ">> \o Str(priv_ip) >>
                                   ELSE <<>>)
                                  \o (IF pip_id.s # <<>> /\ Truthy(pub_ip)
                                      THEN << <<"fe: ">> \o Str(pub_ip) >> ELSE <<>>)
                                  \o rest.ips]

\* IPResolver.get_lb_frontend_ips   (ip_resolver.py 60-75)
get_lb_frontend_ips(ix, lb_resource) ==
    IF ~IsDict(lb_resource) THEN IpsError
    ELSE LET props == PropsOrEmpty(lb_resource, "properties")
         IN IF ~IsDict(props) THEN IpsError
            ELSE LET cfgs == DictGet(props, "frontendIPConfigurations", EmptyList)
                 IN IF ~Iterable(cfgs) THEN IpsError
                    ELSE frontend_entries(ix, Items(cfgs), 1)

\* the leading characters of an address token: which of "10.", "172." and
\* "192.168." it begins with, "" when none
AddressPrefix(t) ==
    CASE t \in {"10.0.1.4", "10.0.2.10"} -> "10."
      [] t \in {"172.16.0.4", "172.32.0.1"} -> "172."
      [] t \in {"192.168.1.4"} -> "192.168."
      [] OTHER -> ""

\* ip.startswith("fe: 10."), ... on an entry "fe: <address>"
StartsWithFe(ip, prefix) ==
    Len(ip) >= 2 /\ ip[1] = "fe: " /\ AddressPrefix(ip[2]) = prefix

\* ip.startswith("pub:")
StartsWithPub(ip) == Len(ip) >= 1 /\ ip[1] = "pub: "

is_public_frontend_only_10(ip) == ~StartsWithFe(ip, "10.")

\* line 107: the test on one frontend entry
is_public_frontend(ip) ==
    ~StartsWithFe(ip, "10.") /\ ~StartsWithFe(ip, "172.") /\ ~StartsWithFe(ip, "192.168.")

\* IPResolver.has_public_ip   (ip_resolver.py 98-109): [err, value]
has_public_ip(ix, resource) ==
    IF ~IsDict(resource) THEN [err |-> TRUE, value |-> FALSE]
    ELSE LET rtype == LowerOrEmptyOf(resource, "type")
         IN IF rtype.err THEN [err |-> TRUE, value |-> FALSE]
            ELSE IF rtype.s = <<"microsoft.network/publicipaddresses">>
            THEN [err |-> FALSE, value |-> TRUE]
            ELSE IF rtype.s = <<"microsoft.compute/virtualmachines">>
            THEN LET r == get_vm_ips(ix, resource)
                 IN [err |-> r.err,
                     value |-> ~r.err /\ \E k \in DOMAIN r.ips : StartsWithPub(r.ips[k])]
            ELSE IF rtype.s \in {<<"microsoft.network/loadbalancers">>,
                                 <<"microsoft.network/applicationgateways">>}
            THEN LET r == get_lb_frontend_ips(ix, resource)
                 IN [err |-> r.err,
                     value |-> ~r.err /\ \E k \in DOMAIN r.ips : is_public_frontend(r.ips[k])]
            ELSE [err |-> FALSE, value |-> FALSE]

\* ------------------------------------------------------------------------
\* Inputs of IPResolver: NICs, public IP addresses, load balancers and
\* gateways as discovery returns them, and the resource a method is asked
\* about
\* ------------------------------------------------------------------------
PipType == "Microsoft.Network/publicIPAddresses"
LbType == "Microsoft.Network/loadBalancers"
Pip2Id == <<SUBSCRIPTIONS, "pip2">>

Address(a) == JStr(<<a>>)
NicWith(cfg) == Nic(NicType, JDict([ipConfigurations |-> JList(<<IpConfiguration(cfg)>>)]))
Frontend(id, type, cfg) ==
    Res(id, type, JDict([frontendIPConfigurations |-> JList(<<IpConfiguration(cfg)>>)]))

IpIndexed ==
    {NicWith([privateIPAddress |-> Address("10.0.1.4"), publicIPAddress |-> Ref(PipId)]),
     NicWith([privateIPAddress |-> Address("10.0.2.10")]),
     NicWith([privateIPAddress |-> Address("10.0.1.4"), publicIPAddress |-> Ref(Pip2Id)]),
     Res(PipId, PipType, JDict([ipAddress |-> Address("20.1.2.3")])),
     Res(Lower(PipId), "microsoft.network/publicipaddresses", EmptyDict)}

IpQueries ==
    {Vm(VmType, JList(<<Ref(NicId)>>)),
     Vm("microsoft.compute/virtualmachines", JList(<<Ref(Lower(NicId))>>)),
     Vm(VmType, EmptyList),
     Res(VmId, VmType, JNull),
     Frontend(<<SUBSCRIPTIONS, "lb1">>, LbType, [privateIPAddress |-> Address("10.0.2.10")]),
     Frontend(<<SUBSCRIPTIONS, "lb1">>, LbType, [privateIPAddress |-> Address("172.16.0.4")]),
     Frontend(<<SUBSCRIPTIONS, "lb1">>, LbType, [privateIPAddress |-> Address("192.168.1.4")]),
     Frontend(<<SUBSCRIPTIONS, "lb1">>, LbType, [privateIPAddress |-> Address("100.64.0.1")]),
     Frontend(<<SUBSCRIPTIONS, "lb1">>, LbType, [publicIPAddress |-> Ref(PipId)]),
     Frontend(<<SUBSCRIPTIONS, "agw1">>, "Microsoft.Network/applicationGateways",
              [privateIPAddress |-> Address("10.0.1.4"), publicIPAddress |-> Ref(PipId)]),
     Frontend(<<SUBSCRIPTIONS, "agw1">>, "Microsoft.Network/applicationGateways",
              [privateIPAddress |-> Address("10.0.1.4")]),
     Res(PipId, PipType, JDict([ipAddress |-> Address("20.1.2.3")])),
     Res(SqlId, "Microsoft.Sql/servers", EmptyDict),
     Frontend(SqlId, "Microsoft.Sql/servers", [privateIPAddress |-> Address("100.64.0.1")]),
     JDict([id |-> JStr(VmId)])}

InitIp ==
    /\ LayoutIdle
    /\ CtorIdle
    /\ FlowIdle
    /\ PageIdle
    /\ relationships = <<>>
    /\ relState = "idle"
    /\ runs = 0
    /\ answer = <<>>
    /\ ipState = "ready"
    /\ query \in IpQueries
    /\ \E n \in 0..MaxResources : resources \in DistinctSeqs(IpIndexed, n)

\* IPResolver(resources).get_vm_ips(query)
GetVmIps ==
    /\ ipState = "ready"
    /\ \E ix \in {IPResolver(resources)} :
         \E out \in {IF ix.err THEN IpsError ELSE get_vm_ips(ix, query)} :
            /\ answer' = [method |-> "get_vm_ips", value |-> out.ips]
            /\ ipState' = IF out.err THEN "raised" ELSE "answered"
    /\ UNCHANGED <<query, layoutVars, relVars, flowVars, ctorVars, pageVars>>

\* IPResolver(resources).get_lb_frontend_ips(query)
GetLbFrontendIps ==
    /\ ipState = "ready"
    /\ \E ix \in {IPResolver(resources)} :
         \E out \in {IF ix.err THEN IpsError ELSE get_lb_frontend_ips(ix, query)} :
            /\ answer' = [method |-> "get_lb_frontend_ips", value |-> out.ips]
            /\ ipState' = IF out.err THEN "raised" ELSE "answered"
    /\ UNCHANGED <<query, layoutVars, relVars, flowVars, ctorVars, pageVars>>

\* IPResolver(resources).has_public_ip(query)
HasPublicIp ==
    /\ ipState = "ready"
    /\ \E ix \in {IPResolver(resources)} :
         \E out \in {IF ix.err THEN [err |-> TRUE, value |-> FALSE]
                     ELSE has_public_ip(ix, query)} :
            /\ answer' = [method |-> "has_public_ip", value |-> out.value]
            /\ ipState' = IF out.err THEN "raised" ELSE "answered"
    /\ UNCHANGED <<query, layoutVars, relVars, flowVars, ctorVars, pageVars>>

NextIp == GetVmIps \/ GetLbFrontendIps \/ HasPublicIp

SpecIp == InitIp /\ [][NextIp]_vars

\* ------------------------------------------------------------------------
\* Properties of IPResolver
\* ------------------------------------------------------------------------
\* reading of the resource set, ids and types compared in lower case
TypeIs(r, type) == IsStr(DictGet(r, "type", JNull)) /\ Lower(r.d["type"].s) = <<type>>
LowerId(r) == IF IsStr(DictGet(r, "id", JNull)) THEN Lower(r.d["id"].s) ELSE <<>>
ListOf(x) == IF IsList(x) THEN {x.l[i] : i \in DOMAIN x.l} ELSE {}
Present(type) == {resources[i] : i \in {j \in DOMAIN resources : TypeIs(resources[j], type)}}

\* the NICs a VM references
NicsOf(vm) ==
    {LowerId(ref) : ref \in ListOf(_safe_get(vm, <<"properties", "networkProfile",
                                                    "networkInterfaces">>, EmptyList))}
    \ {<<>>}
ConfigsOf(r, key) ==
    {_safe_get(c, <<"properties">>, EmptyDict) :
        c \in ListOf(_safe_get(r, <<"properties", key>>, EmptyList))}
NicConfigs(nic) ==
    UNION {ConfigsOf(r, "ipConfigurations") :
             r \in {q \in Present("microsoft.network/networkinterfaces") : LowerId(q) = nic}}
PrivateAddresses(cfgs) ==
    {DictGet(c, "privateIPAddress", JNull) : c \in cfgs} \ {JNull, JStr(<<>>)}
\* the public-IP resources of the set that the configurations reference
ReferencedPublicIps(cfgs) ==
    {r \in Present("microsoft.network/publicipaddresses") :
        \E c \in cfgs : LowerId(r) # <<>> /\ LowerId(r) = LowerId(DictGet(c, "publicIPAddress", EmptyDict))}
PublicAddresses(cfgs) ==
    {_safe_get(r, <<"properties", "ipAddress">>, JNull) : r \in ReferencedPublicIps(cfgs)}
    \ {JNull, JStr(<<>>)}

Entries(tag, addresses) == {<<tag>> \o a.s : a \in addresses}
Returned == {answer.value[i] : i \in DOMAIN answer.value}

\* C14: get_vm_ips(vm) returns, for each NIC the VM references (ids
\* compared without regard to case), "priv: <addr>" for every private IP of
\* the NIC and "pub: <addr>" for every public-IP resource the NIC references
\* that is in the resource set with a non-empty address, and nothing else;
\* a VM none of whose NICs references a public-IP resource of the set gets
\* no entry beginning with "pub:".
C14_VmIps ==
    (ipState = "answered" /\ answer.method = "get_vm_ips") =>
        LET cfgs == UNION {NicConfigs(nic) : nic \in NicsOf(query)}
        IN /\ Returned = Entries("priv: ", PrivateAddresses(cfgs))
                         \cup Entries("pub: ", PublicAddresses(cfgs))
           /\ ReferencedPublicIps(cfgs) = {}
                => \A e \in Returned : ~StartsWithPub(e)

\* a VM whose NIC reference is written in lower case, the NIC with a
\* private address and a public IP of the set: both entries are returned
C14_Witness ==
    /\ ipState = "answered"
    /\ answer.method = "get_vm_ips"
    /\ query = Vm("microsoft.compute/virtualmachines", JList(<<Ref(Lower(NicId))>>))
    /\ answer.value = << <<"priv: ", "10.0.1.4">>, <<"pub: ", "20.1.2.3">> >>

\* C15: has_public_ip is true for a load balancer or application gateway
\* exactly when one of its frontend IPs (a frontend private address or the
\* address of a frontend public IP of the set) begins with none of "10.",
\* "172." and "192.168."; for a VM exactly when get_vm_ips holds a "pub:"
\* entry; and false for every type other than VM, load balancer,
\* application gateway and public IP address.
C15_HasPublicIp ==
    (ipState = "answered" /\ answer.method = "has_public_ip") =>
        IF TypeIs(query, "microsoft.network/loadbalancers")
           \/ TypeIs(query, "microsoft.network/applicationgateways")
        THEN LET cfgs == ConfigsOf(query, "frontendIPConfigurations")
             IN answer.value <=>
                  \E a \in PrivateAddresses(cfgs) \cup PublicAddresses(cfgs) :
                     AddressPrefix(a.s[1]) = ""
        ELSE IF TypeIs(query, "microsoft.compute/virtualmachines")
        THEN answer.value <=>
               \E e \in {get_vm_ips(IPResolver(resources), query).ips[i] :
                           i \in DOMAIN get_vm_ips(IPResolver(resources), query).ips} :
                  StartsWithPub(e)
        ELSE IF TypeIs(query, "microsoft.network/publicipaddresses")
        THEN TRUE
        ELSE answer.value = FALSE

\* a load balancer whose only frontend address is 172.16.0.4 has no public
\* IP, asked with a public IP address in the resource set
C15_Witness ==
    /\ ipState = "answered"
    /\ answer.method = "has_public_ip"
    /\ query = Frontend(<<SUBSCRIPTIONS, "lb1">>, LbType,
                        [privateIPAddress |-> Address("172.16.0.4")])
    /\ Len(resources) > 0
    /\ answer.value = FALSE

\* ========================================================================
\* Properties of the grid and left-to-right layouts
\* ========================================================================
\* the root group above a group
RECURSIVE RootOf(_, _)
RootOf(gid, fuel) ==
    LET g == group_map(groups, gid)
    IN IF g.parent_id = NoParent \/ fuel = 0 THEN gid
       ELSE RootOf(g.parent_id, fuel - 1)

NestedGroups == {i \in DOMAIN groups : groups[i].parent_id # NoParent}

\* C16: after grid layout of a forest page, the bounding box of every root
\* group encloses, with padding on every side, the bounding box of every
\* group nested in it at any depth.
C16_GridEnclosesNestedGroups ==
    (layoutState = "done" /\ strategy = "grid" /\ IsForest) =>
        \A i \in NestedGroups :
            InsideInset(bounding_box[groups[i].id],
                        bounding_box[RootOf(groups[i].id, Len(groups))],
                        1, 1, 1, 1)

\* C17: after left-to-right layout of a forest page, a group that has a
\* parent and is listed in the parent's children has its bounding box, and
\* the rectangles of its own child nodes, inside the parent's bounding box.
C17_LeftToRightNestedInside ==
    (layoutState = "done" /\ strategy = "left_to_right" /\ IsForest) =>
        \A i \in NestedGroups :
            LET parent == bounding_box[groups[i].parent_id]
                own == child_node_ids(nodes, groups, groups[i].children)
            IN /\ InsideInset(bounding_box[groups[i].id], parent, 0, 0, 0, 0)
               /\ \A k \in DOMAIN own : InsideInset(Rect(own[k]), parent, 0, 0, 0, 0)

\* two rectangles share no point
Apart(a, b) ==
    \/ a.x + a.w <= b.x
    \/ b.x + b.w <= a.x
    \/ a.y + a.h <= b.y
    \/ b.y + b.h <= a.y

\* C18: after layout under any strategy of a forest page, two distinct
\* groups with the same parent (or both without one) have bounding boxes
\* that do not intersect.
C18_SiblingGroupsApart ==
    (layoutState = "done" /\ IsForest) =>
        \A i, j \in DOMAIN groups :
            (i # j /\ groups[i].parent_id = groups[j].parent_id)
                => Apart(bounding_box[groups[i].id], bounding_box[groups[j].id])

\* three groups under one strategy: two of them children of the first, laid
\* out side by side
C18_Witness ==
    /\ layoutState = "done" /\ IsForest
    /\ strategy = "grid"
    /\ \E a, b, c \in DOMAIN groups :
         /\ b # c
         /\ groups[a].parent_id = NoParent
         /\ groups[b].parent_id = groups[a].id
         /\ groups[c].parent_id = groups[a].id
         /\ bounding_box[groups[b].id].x < bounding_box[groups[c].id].x

RootIndexes == {i \in DOMAIN groups : groups[i].parent_id = NoParent}
\* position (from 0) of a root group among the root groups, in page order
RootRank(i) == Cardinality({j \in RootIndexes : j < i})

C20_GridNodesWithinCell ==
    (layoutState = "done" /\ strategy = "grid" /\ IsForest) =>
        \A i \in RootIndexes :
            LET own == child_node_ids(nodes, groups, groups[i].children)
                cell == bounding_box[groups[i].id]
            IN (\A k \in DOMAIN own : node_map(nodes, own[k]).w <= 250)
                 => \A k \in DOMAIN own :
                       /\ position[own[k]].x >= cell.x
                       /\ position[own[k]].x + node_map(nodes, own[k]).w <= cell.x + 350

\* C21: in left-to-right layout every top-level group is a column and the
\* columns advance in group order: all column boxes have the same top y and
\* a top-level group later in page order starts strictly to the right of
\* the right edge of every earlier top-level group.
C21_ColumnsAdvance ==
    (layoutState = "done" /\ strategy = "left_to_right") =>
        \A i, j \in RootIndexes :
            /\ bounding_box[groups[i].id].y = bounding_box[groups[j].id].y
            /\ i < j => bounding_box[groups[j].id].x
                          > bounding_box[groups[i].id].x + bounding_box[groups[i].id].w

\* three top-level columns, the first wider than the minimum width
C21_Witness ==
    /\ layoutState = "done" /\ strategy = "left_to_right"
    /\ Cardinality(RootIndexes) >= 3
    /\ \E i \in RootIndexes : bounding_box[groups[i].id].w > 200

\* indexes of the nodes named in no children list
UngroupedIndexes ==
    {i \in DOMAIN nodes :
        \A g \in DOMAIN groups : \A k \in DOMAIN groups[g].children :
            groups[g].children[k] # nodes[i].id}

RootBottoms ==
    {bounding_box[groups[i].id].y + bounding_box[groups[i].id].h : i \in RootIndexes}

LargestOf(S) == CHOOSE m \in S : \A n \in S : n <= m

\* C22: in hierarchical layout the nodes named in no children list form one
\* row below all root groups: their y is 40 plus the largest bottom edge of
\* a root group (40 plus 40 without root groups), the first one has x = 40
\* and each next one the previous x plus the previous width plus 160.
C22_UngroupedRow ==
    (layoutState = "done" /\ strategy = "hierarchical") =>
        \A i \in UngroupedIndexes :
            LET before == {j \in UngroupedIndexes : j < i}
                row_y == 40 + (IF RootIndexes = {} THEN 40 ELSE LargestOf(RootBottoms))
            IN /\ position[nodes[i].id].y = row_y
               /\ before = {} => position[nodes[i].id].x = 40
               /\ before # {} =>
                    LET p == LargestOf(before)
                    IN position[nodes[i].id].x
                         = position[nodes[p].id].x + nodes[p].w + 160

\* two ungrouped nodes below two root groups, the last of them shorter
C22_Witness ==
    /\ layoutState = "done" /\ strategy = "hierarchical" /\ IsForest
    /\ Cardinality(UngroupedIndexes) = 2
    /\ Cardinality(RootIndexes) >= 2
    /\ \E i \in RootIndexes :
         bounding_box[groups[i].id].y + bounding_box[groups[i].id].h
             < LargestOf(RootBottoms)
    /\ \E i \in UngroupedIndexes : position[nodes[i].id].x > 40

C29_LayoutIdempotent ==
    [][(layoutState = "done" /\ strategy' = strategy) =>
          /\ position' = position
          /\ bounding_box' = bounding_box
          /\ layoutState' = "done"]_vars

\* the same strategy applied twice to a page with nested groups and
\* ungrouped nodes
C29_Witness ==
    /\ layoutState = "done" /\ previous_strategy = strategy
    /\ NestedGroups # {} /\ UngroupedIndexes # {}

\* the backend IP-configuration references of a load balancer, as token
\* sequences
BackendRefs(lb) ==
    UNION {{LowerId(IF IsStr(ref) THEN JDict([id |-> ref]) ELSE ref) :
              ref \in ListOf(_safe_get(pool, <<"properties", "backendIPConfigurations">>,
                                       EmptyList))} :
           pool \in ListOf(_safe_get(lb, <<"properties", "backendAddressPools">>,
                                     EmptyList))} \ {<<>>}

\* <nic-id>/ipConfigurations/<name>, <nic-id> ending in
\* /networkInterfaces/<nic>
IsIpConfigOfNic(ref) ==
    /\ Len(ref) >= 4
    /\ ref[Len(ref) - 1] = "/ipconfigurations/"
    /\ ref[Len(ref) - 3] = NicSegment

HasNicSegment(ref) == \E i \in DOMAIN ref : ref[i] = NicSegment

LoadBalancers ==
    {resources[i] : i \in DOMAIN resources} \cap Present("microsoft.network/loadbalancers")

\* C26: for a load balancer, every backend reference of the form
\* <nic-id>/ipConfigurations/<name> gives a load_balances relationship to
\* the lower-cased <nic-id>, one relationship per NIC however many of its
\* IP configurations are named, and a reference without a networkInterfaces
\* segment gives none.
C26_LoadBalancerBackends ==
    relState = "returned" =>
        \A lb \in LoadBalancers :
            /\ \A ref \in BackendRefs(lb) :
                 IsIpConfigOfNic(ref) =>
                    CountRel(LowerId(lb), SubSeq(ref, 1, Len(ref) - 2), "load_balances") = 1
            /\ \A i \in DOMAIN relationships :
                 (relationships[i].relationship_type = "load_balances"
                  /\ relationships[i].source_id = LowerId(lb)) =>
                    \E ref \in BackendRefs(lb) :
                        /\ HasNicSegment(ref)
                        /\ Len(relationships[i].target_id) <= Len(ref)
                        /\ relationships[i].target_id
                             = SubSeq(ref, 1, Len(relationships[i].target_id))

\* a load balancer that names two IP configurations of one NIC, one of a
\* second NIC and a VM: two relationships
C26_Witness ==
    /\ relState = "returned"
    /\ \E lb \in LoadBalancers :
         /\ Cardinality(BackendRefs(lb)) = 4
         /\ \E ref \in BackendRefs(lb) : ~HasNicSegment(ref)
         /\ Cardinality({i \in DOMAIN relationships :
                           /\ relationships[i].relationship_type = "load_balances"
                           /\ relationships[i].source_id = LowerId(lb)}) = 2

\* the relationships of the state in another order
Reordered(p) == [i \in DOMAIN relationships |-> relationships[p[i]]]

\* the same flows, each as many times, whatever their order
SameFlows(a, b) ==
    /\ Len(a) = Len(b)
    /\ \A f \in {a[i] : i \in DOMAIN a} \cup {b[i] : i \in DOMAIN b} :
         Cardinality({i \in DOMAIN a : a[i] = f})
             = Cardinality({i \in DOMAIN b : b[i] = f})

\* C27: the flows discover_data_flows returns do not depend on the order of
\* the relationships: for every other ordering of the same relationships,
\* with the same resources and rules, the result holds the same flows, also
\* when one private endpoint has private_link_to relationships to two
\* services.
C27_FlowsIndependentOfOrder ==
    flowState = "discovered" =>
        \A p \in Permutations(DOMAIN relationships) :
            LET other == discover_data_flows(resources, Reordered(p), nsg_rules)
            IN ~other.err /\ SameFlows(other.flows, flows)

\* ========================================================================
\* renderers/drawio.py, renderers/mermaid.py, renderers/lucidchart.py.
\* An identifier is a sequence of characters.  Elements of a page:
\*   node  [id, group_id, icon_path, category]
\*   group [id, parent_id, children]
\*   edge  [id, source_id, target_id]
\* None is NoParent; category is the category get_resource_meta gives for
\* the node's resource type.  Geometry, labels and colours of the output are
\* copied from the element and left out here: no identifier and no choice of
\* what is emitted depends on them.
\* ========================================================================
HasId(xs, id) == \E i \in DOMAIN xs : xs[i].id = id

\* {x.id: x for x in xs}[id]: the last element with the id
LastWith(xs, id) ==
    xs[CHOOSE i \in DOMAIN xs :
          xs[i].id = id /\ \A j \in DOMAIN xs : j > i => xs[j].id # id]

\* "x or default" for an optional string
OrDefault(x, default) == IF x = NoParent \/ x = <<>> THEN default ELSE x

RECURSIVE Flatten(_, _)
Flatten(parts, n) == IF n = 0 THEN <<>> ELSE Flatten(parts, n - 1) \o parts[n]

\* ------------------------------------------------------------------------
\* DrawioRenderer._build_mxfile for one page (drawio.py 80-125): the
\* mxCell elements under <root>, in document order
\* ------------------------------------------------------------------------
Cell(kind, id, parent, source, target) ==
    [kind |-> kind, id |-> id, parent |-> parent, source |-> source, target |-> target]

\* drawio.py 127-157
_add_group(group) ==
    Cell("vertex", group.id, OrDefault(group.parent_id, <<"1">>), NoParent, NoParent)

\* drawio.py 159-197
_add_node(node) ==
    Cell("vertex", node.id, OrDefault(node.group_id, <<"1">>), NoParent, NoParent)

\* drawio.py 199-227
_add_edge(edge) ==
    Cell("edge", edge.id, <<"1">>, edge.source_id, edge.target_id)

_build_mxfile(pg) ==
    [renderer |-> "drawio",
     id |-> pg.id,
     cells |-> <<Cell("default", <<"0">>, NoParent, NoParent, NoParent),
                 Cell("default", <<"1">>, <<"0">>, NoParent, NoParent)>>
               \o [i \in DOMAIN pg.groups |-> _add_group(pg.groups[i])]
               \o [i \in DOMAIN pg.nodes |-> _add_node(pg.nodes[i])]
               \o [i \in DOMAIN pg.edges |-> _add_edge(pg.edges[i])]]

\* ------------------------------------------------------------------------
\* MermaidRenderer._build_page (mermaid.py 79-109): the lines of the graph
\* definition
\* ------------------------------------------------------------------------
\* characters outside [a-zA-Z0-9_] among those the identifiers are made of
NonWordChars == {"/", " ", ":", "(", ")", "-", "."}

\* mermaid.py 26-28
mermaid_sanitize_id(raw_id) ==
    [i \in DOMAIN raw_id |-> IF raw_id[i] \in NonWordChars THEN "_" ELSE raw_id[i]]

Line(kind, id, src, tgt, ids) ==
    [kind |-> kind, id |-> id, src |-> src, tgt |-> tgt, ids |-> ids]

\* mermaid.py 153-170
_render_node(node) ==
    Line("node", mermaid_sanitize_id(node.id), NoParent, NoParent, <<>>)

\* mermaid.py 172-189
_render_edge(edge) ==
    Line("edge", NoParent, mermaid_sanitize_id(edge.source_id),
         mermaid_sanitize_id(edge.target_id), <<>>)

\* mermaid.py 111-151: acc = [lines, grouped_ids]
RECURSIVE _render_subgraph(_, _, _, _)
RECURSIVE RenderChildGroups(_, _, _, _, _)
RenderChildGroups(acc, children, i, gs, ns) ==
    IF i > Len(children) THEN acc
    ELSE IF HasId(gs, children[i])
    THEN LET r == _render_subgraph(LastWith(gs, children[i]), gs, ns,
                                   acc.grouped_ids)
         IN RenderChildGroups([lines |-> acc.lines \o r.lines,
                               grouped_ids |-> r.grouped_ids],
                              children, i + 1, gs, ns)
    ELSE RenderChildGroups(acc, children, i + 1, gs, ns)

_render_subgraph(group, gs, ns, grouped_ids) ==
    LET sub == RenderChildGroups([lines |-> <<>>,
                                  grouped_ids |-> grouped_ids],
                                 group.children, 1, gs, ns)
        own == SelectSeq(group.children, LAMBDA c : HasId(ns, c))
    IN [lines |->
          <<Line("subgraph", mermaid_sanitize_id(group.id), NoParent, NoParent, <<>>)>>
          \o sub.lines
          \o [k \in DOMAIN own |-> _render_node(LastWith(ns, own[k]))]
          \o <<Line("end", NoParent, NoParent, NoParent, <<>>)>>,
        grouped_ids |-> sub.grouped_ids \cup {own[k] : k \in DOMAIN own}]

\* mermaid.py 89-94: the root groups in page order
RECURSIVE RenderRootGroups(_, _, _, _, _)
RenderRootGroups(acc, roots, i, gs, ns) ==
    IF i > Len(roots) THEN acc
    ELSE LET r == _render_subgraph(roots[i], gs, ns, acc.grouped_ids)
         IN RenderRootGroups([lines |-> acc.lines \o r.lines,
                              grouped_ids |-> r.grouped_ids],
                             roots, i + 1, gs, ns)

\* mermaid.py 191-223: one classDef and one class line for every category
\* with a style, in the order the categories first occur
style_defs ==
    {"compute", "networking", "data", "storage", "security", "integration",
     "monitoring"}

_render_styles(ns) ==
    LET first == SelectSeq([i \in DOMAIN ns |-> i],
                           LAMBDA i : \A j \in 1..(i - 1) : ns[j].category # ns[i].category)
        styled == SelectSeq(first, LAMBDA i : ns[i].category \in style_defs)
        members(cat) == SelectSeq(ns, LAMBDA n : n.category = cat)
    IN Flatten([k \in DOMAIN styled |->
                  <<Line("classDef", <<ns[styled[k]].category>>, NoParent, NoParent, <<>>),
                    Line("class", <<ns[styled[k]].category>>, NoParent, NoParent,
                         [m \in DOMAIN members(ns[styled[k]].category) |->
                            mermaid_sanitize_id(members(ns[styled[k]].category)[m].id)])>>],
               Len(styled))

mermaid_build_page(pg) ==
    LET subgraphs == RenderRootGroups([lines |-> <<>>, grouped_ids |-> {}],
                                      root_groups(pg.groups), 1, pg.groups, pg.nodes)
        ungrouped == SelectSeq(pg.nodes, LAMBDA n : n.id \notin subgraphs.grouped_ids)
    IN [renderer |-> "mermaid",
        id |-> pg.id,
        lines |-> subgraphs.lines
                  \o [i \in DOMAIN ungrouped |-> _render_node(ungrouped[i])]
                  \o [i \in DOMAIN pg.edges |-> _render_edge(pg.edges[i])]
                  \o _render_styles(pg.nodes)]

\* ------------------------------------------------------------------------
\* LucidchartRenderer._build_page (lucidchart.py 93-148)
\* ------------------------------------------------------------------------
\* str.translate(_SAFE_ID_TABLE)   (lucidchart.py 34)
Translate(raw_id) ==
    SelectSeq([i \in DOMAIN raw_id |->
                 IF raw_id[i] \in {"/", " ", ":"} THEN "_" ELSE raw_id[i]],
              LAMBDA c : c \notin {"(", ")"})

\* hashlib.md5(clean).hexdigest()[:7]: seven characters that are a function
\* of the whole string; two different strings are taken to give different
\* digests
md5_hexdigest_7(clean) == <<ToString(clean), "#", "#", "#", "#", "#", "#">>


\* lucidchart.py 37-46
_sanitize_id(raw_id) ==
    LET clean == Translate(raw_id)
    IN IF Len(clean) <= 36 THEN clean
       ELSE SubSeq(clean, 1, 28) \o <<"_">> \o md5_hexdigest_7(clean)

DigitChars == <<"0", "1", "2", "3", "4", "5", "6", "7", "8", "9">>
\* str(i) for 0 <= i < 100
Decimal(i) ==
    IF i < 10 THEN <<DigitChars[i + 1]>>
    ELSE <<DigitChars[(i \div 10) + 1], DigitChars[(i % 10) + 1]>>

\* lucidchart.py 112-116: the first free "<raw>_<i>", i in range(2, 100);
\* <<>> when none is free
RECURSIVE FirstFreeAlt(_, _, _, _)
FirstFreeAlt(prefix, raw_id, used_ids, i) ==
    IF i >= 100 THEN <<>>
    ELSE LET alt == _sanitize_id(prefix \o raw_id \o <<"_">> \o Decimal(i))
         IN IF alt \notin used_ids THEN alt
            ELSE FirstFreeAlt(prefix, raw_id, used_ids, i + 1)

\* lucidchart.py 107-117: [id, used_ids]
_unique_id(prefix, raw_id, used_ids) ==
    LET candidate == _sanitize_id(prefix \o raw_id)
        alt == FirstFreeAlt(prefix, raw_id, used_ids, 2)
    IN IF candidate \notin used_ids
       THEN [id |-> candidate, used_ids |-> used_ids \cup {candidate}]
       ELSE IF alt # <<>>
       THEN [id |-> alt, used_ids |-> used_ids \cup {alt}]
       ELSE [id |-> candidate, used_ids |-> used_ids]

\* lucidchart.py 119-133 over the ids of the groups, nodes and edges in that
\* order: acc = [obj_id_map (by position), id_map (first wins), used_ids]
RECURSIVE AssignIds(_, _, _, _)
AssignIds(acc, prefix, raw_ids, i) ==
    IF i > Len(raw_ids) THEN acc
    ELSE LET u == _unique_id(prefix, raw_ids[i], acc.used_ids)
         IN AssignIds(
              [obj_id_map |-> Append(acc.obj_id_map, u.id),
               id_map |-> IF \E k \in DOMAIN acc.id_map : acc.id_map[k].key = raw_ids[i]
                          THEN acc.id_map
                          ELSE Append(acc.id_map, [key |-> raw_ids[i], value |-> u.id]),
               used_ids |-> u.used_ids],
              prefix, raw_ids, i + 1)

\* id_map.get(ref, _sanitize_id(ref))
Resolve(id_map, ref) == DictItemsGet(id_map, ref, _sanitize_id(ref))

Shape(id, type, containedBy) == [id |-> id, type |-> type, containedBy |-> containedBy]

\* lucidchart.py 150-240
_node_to_shapes(node, node_id, id_map) ==
    LET parent_id == IF OrDefault(node.group_id, <<>>) = <<>> THEN NoParent
                     ELSE Resolve(id_map, node.group_id)
    IN IF node.icon_path
       THEN <<Shape(_sanitize_id(node_id \o <<"_", "i", "c", "o", "n">>),
                    "rectangle", parent_id),
              Shape(node_id, "text", parent_id)>>
       ELSE <<Shape(node_id, "rectangle", parent_id)>>

\* lucidchart.py 242-285
_group_to_shape(group, group_id, id_map) ==
    Shape(group_id, "roundedRectangleContainer",
          IF OrDefault(group.parent_id, <<>>) = <<>> THEN NoParent
          ELSE Resolve(id_map, group.parent_id))

\* lucidchart.py 287-344
_edge_to_line(edge, edge_id, id_map) ==
    [id |-> edge_id,
     endpoint1 |-> Resolve(id_map, edge.source_id),
     endpoint2 |-> Resolve(id_map, edge.target_id)]

lucid_build_page(pg) ==
    LET prefix == pg.id \o <<"_">>
        raw_ids == [i \in DOMAIN pg.groups |-> pg.groups[i].id]
                   \o [i \in DOMAIN pg.nodes |-> pg.nodes[i].id]
                   \o [i \in DOMAIN pg.edges |-> pg.edges[i].id]
        ids == AssignIds([obj_id_map |-> <<>>, id_map |-> <<>>, used_ids |-> {}],
                         prefix, raw_ids, 1)
        ng == Len(pg.groups)
        nn == Len(pg.nodes)
    IN [renderer |-> "lucidchart",
        id |-> _sanitize_id(pg.id),
        shapes |-> [i \in DOMAIN pg.groups |->
                      _group_to_shape(pg.groups[i], ids.obj_id_map[i], ids.id_map)]
                   \o Flatten([i \in DOMAIN pg.nodes |->
                                 _node_to_shapes(pg.nodes[i], ids.obj_id_map[ng + i],
                                                 ids.id_map)],
                              nn),
        lines |-> [i \in DOMAIN pg.edges |->
                     _edge_to_line(pg.edges[i], ids.obj_id_map[ng + nn + i], ids.id_map)]]

\* ------------------------------------------------------------------------
\* Pages handed to the renderers: one to MaxShapes nodes with ids of several
\* shapes, with or without an icon, no group, one group or a group with a
\* child group, and up to MaxEdges edges whose ends are the first node, the
\* last element or an id that is not in the page
\* ------------------------------------------------------------------------
IdA == <<"a">>
IdAIcon == <<"a", "_", "i", "c", "o", "n">>
IdSlash == <<"a", "/", "b">>
IdUnder == <<"a", "_", "b">>
IdLong == [i \in 1..40 |-> "x"]
IdLonger == [i \in 1..41 |-> "x"]
NodeIdPool == {IdA, IdAIcon, IdSlash, IdUnder, IdLong, IdLonger}
GhostNode == <<"g", "h", "o", "s", "t">>
TierId == <<"t", "i", "e", "r">>
PlanGroupId == <<"p", "l", "a", "n">>
PageId == <<"p", "1">>

NodeCategory(id) ==
    IF id \in {IdA, IdSlash} THEN "compute"
    ELSE IF id = IdUnder THEN "networking"
    ELSE "general"

GroupShapes == {"none", "one", "nested"}

RenderGroups(shape, ids) ==
    IF shape = "none" THEN <<>>
    ELSE IF shape = "one"
    THEN <<[id |-> TierId, parent_id |-> NoParent, children |-> <<ids[1]>>]>>
    ELSE <<[id |-> TierId, parent_id |-> NoParent, children |-> <<PlanGroupId>>],
           [id |-> PlanGroupId, parent_id |-> TierId, children |-> <<ids[1]>>]>>

RenderNodes(shape, ids, icons) ==
    [i \in DOMAIN ids |->
       [id |-> ids[i],
        group_id |-> IF i > 1 \/ shape = "none" THEN NoParent
                     ELSE IF shape = "one" THEN TierId ELSE PlanGroupId,
        icon_path |-> icons[i],
        category |-> NodeCategory(ids[i])]]

\* the ends an edge can have on a page with these nodes
EdgeEnds(shape, ids) ==
    {ids[1], GhostNode} \X {IF shape = "none" THEN ids[Len(ids)] ELSE TierId, GhostNode}

RenderEdges(ends) ==
    [i \in DOMAIN ends |->
       [id |-> <<"e">> \o Decimal(i), source_id |-> ends[i][1], target_id |-> ends[i][2]]]

InitRender ==
    /\ LayoutIdle /\ RelIdle /\ FlowIdle /\ CtorIdle /\ IpIdle
    /\ vnets = <<>>
    /\ document = <<>>
    /\ pageState = "given"
    /\ \E n \in 1..MaxShapes, e \in 0..MaxEdges, shape \in GroupShapes :
         \E ids \in DistinctSeqs(NodeIdPool, n), icons \in [1..n -> BOOLEAN] :
           \E ends \in [1..e -> EdgeEnds(shape, ids)] :
              page = [id |-> PageId,
                      nodes |-> RenderNodes(shape, ids, icons),
                      groups |-> RenderGroups(shape, ids),
                      edges |-> RenderEdges(ends)]

\* DrawioRenderer.render, one page
RenderDrawio ==
    /\ pageState = "given"
    /\ document' = _build_mxfile(page)
    /\ pageState' = "rendered"
    /\ UNCHANGED <<vnets, page, layoutVars, relVars, flowVars, ctorVars, ipVars>>

\* MermaidRenderer.render, one page
RenderMermaid ==
    /\ pageState = "given"
    /\ document' = mermaid_build_page(page)
    /\ pageState' = "rendered"
    /\ UNCHANGED <<vnets, page, layoutVars, relVars, flowVars, ctorVars, ipVars>>

\* LucidchartRenderer.render, one page
RenderLucidchart ==
    /\ pageState = "given"
    /\ document' = lucid_build_page(page)
    /\ pageState' = "rendered"
    /\ UNCHANGED <<vnets, page, layoutVars, relVars, flowVars, ctorVars, ipVars>>

NextRender == RenderDrawio \/ RenderMermaid \/ RenderLucidchart

SpecRender == InitRender /\ [][NextRender]_vars

\* ------------------------------------------------------------------------
\* Properties of the renderers
\* ------------------------------------------------------------------------
PageElementIds ==
    {page.nodes[i].id : i \in DOMAIN page.nodes}
    \cup {page.groups[i].id : i \in DOMAIN page.groups}

Resolves(edge) == edge.source_id \in PageElementIds /\ edge.target_id \in PageElementIds

\* the ends of the edges in the output, in output order, as the renderer
\* writes them
RenderedEnds ==
    IF document.renderer = "drawio"
    THEN LET cs == SelectSeq(document.cells, LAMBDA c : c.kind = "edge")
         IN [i \in DOMAIN cs |-> <<cs[i].source, cs[i].target>>]
    ELSE IF document.renderer = "mermaid"
    THEN LET ls == SelectSeq(document.lines, LAMBDA l : l.kind = "edge")
         IN [i \in DOMAIN ls |-> <<ls[i].src, ls[i].tgt>>]
    ELSE [i \in DOMAIN document.lines |->
            <<document.lines[i].endpoint1, document.lines[i].endpoint2>>]

\* the ends a renderer that writes raw or sanitized ids gives an edge
ExpectedEnds(edge) ==
    IF document.renderer = "drawio" THEN <<edge.source_id, edge.target_id>>
    ELSE <<mermaid_sanitize_id(edge.source_id), mermaid_sanitize_id(edge.target_id)>>

\* C25: an edge with an end that is the id of no node and no group of the
\* page is left out of the output of every renderer, no error is raised,
\* and the edges whose two ends resolve are all rendered: the output holds
\* one edge for each edge that resolves, in page order, and no other.
C25_DanglingEdgesDropped ==
    pageState = "rendered" =>
        LET kept == SelectSeq(page.edges, Resolves)
        IN /\ Len(RenderedEnds) = Len(kept)
           /\ document.renderer # "lucidchart" =>
                 RenderedEnds = [i \in DOMAIN kept |-> ExpectedEnds(kept[i])]

\* ids of everything the Lucidchart document holds
EmittedIds ==
    [i \in DOMAIN document.shapes |-> document.shapes[i].id]
    \o [i \in DOMAIN document.lines |-> document.lines[i].id]

PageIdsDistinct ==
    LET all == [i \in DOMAIN page.groups |-> page.groups[i].id]
               \o [i \in DOMAIN page.nodes |-> page.nodes[i].id]
               \o [i \in DOMAIN page.edges |-> page.edges[i].id]
    IN \A i, j \in DOMAIN all : all[i] = all[j] => i = j

\* C30: in the Lucidchart document of a page whose node, group and edge ids
\* are pairwise distinct, the ids of all shapes (containers, node shapes,
\* icon shapes, label shapes) and of all lines are pairwise distinct.
C30_LucidchartIdsDistinct ==
    (pageState = "rendered" /\ document.renderer = "lucidchart" /\ PageIdsDistinct) =>
        \A i, j \in DOMAIN EmittedIds : EmittedIds[i] = EmittedIds[j] => i = j

\* ========================================================================
\* templates/security.py: build_security_page
\* Strings are token sequences as in the discovery sections.  The page
\* structure is modelled: ids, parents, children, sizes, the risk class of
\* a subnet and the exposure class of a resource.  Titles, names shown,
\* colours and icon paths are left out.
\* ========================================================================
NsgSegmentLower == "/networksecuritygroups/"

\* "props.get('subnets', [])" for "props = vnet.get('properties', {}) or {}"
vnet_subnets(vnet) ==
    DictGet(PropsOrEmpty(vnet, "properties"), "subnets", EmptyList).l

\* _build_nsg_subnet_index, lines 223-228: after the first n relationships
RECURSIVE nsg_subnets_from_relationships(_, _)
nsg_subnets_from_relationships(rels, n) ==
    IF n = 0 THEN <<>>
    ELSE LET acc == nsg_subnets_from_relationships(rels, n - 1)
             rel == rels[n]
             src == Lower(rel.source_id)
             tgt == Lower(rel.target_id)
         IN IF rel.relationship_type = "applied_to" /\ Contains(src, NsgSegmentLower)
            THEN ListAppend(acc, src, tgt)
            ELSE acc

\* lines 233-241: the subnets of one VNet, from subnet i on
RECURSIVE nsg_subnets_from_subnets(_, _, _)
nsg_subnets_from_subnets(acc, subnets, i) ==
    IF i > Len(subnets) THEN acc
    ELSE LET subnet == subnets[i]
             subnet_id == LowerOrEmptyOf(subnet, "id").s
             subnet_props == PropsOrEmpty(subnet, "properties")
             nsg_id == RefIdLower(subnet_props, "networkSecurityGroup").s
             listed == DictItemsGet(acc, nsg_id, <<>>)
         IN nsg_subnets_from_subnets(
              IF nsg_id # <<>> /\ subnet_id # <<>>
              THEN DictPut(acc, nsg_id,
                           IF \E k \in DOMAIN listed : listed[k] = subnet_id
                           THEN listed ELSE Append(listed, subnet_id))
              ELSE acc,
              subnets, i + 1)

\* lines 231-241: the VNets from VNet i on
RECURSIVE nsg_subnets_from_vnets(_, _, _)
nsg_subnets_from_vnets(acc, vs, i) ==
    IF i > Len(vs) THEN acc
    ELSE nsg_subnets_from_vnets(nsg_subnets_from_subnets(acc, vnet_subnets(vs[i]), 1),
                                vs, i + 1)

\* _build_nsg_subnet_index   (security.py 215-243): NSG id -> subnet ids
_build_nsg_subnet_index(rels, vs) ==
    nsg_subnets_from_vnets(nsg_subnets_from_relationships(rels, Len(rels)), vs, 1)

\* "for sid in subnet_ids: result[sid] = nsg_id"
RECURSIVE invert_subnets(_, _, _, _)
invert_subnets(acc, nsg_id, subnet_ids, i) ==
    IF i > Len(subnet_ids) THEN acc
    ELSE invert_subnets(DictPut(acc, subnet_ids[i], nsg_id), nsg_id, subnet_ids, i + 1)

\* _invert_nsg_subnet_index   (security.py 246-252): subnet id -> NSG id
RECURSIVE invert_items(_, _)
invert_items(nsg_to_subnets, n) ==
    IF n = 0 THEN <<>>
    ELSE invert_subnets(invert_items(nsg_to_subnets, n - 1),
                        nsg_to_subnets[n].key, nsg_to_subnets[n].value, 1)

_invert_nsg_subnet_index(nsg_to_subnets) == invert_items(nsg_to_subnets, Len(nsg_to_subnets))

\* lines 280-284 and 288-290: the dict of source_id -> target_id of the
\* relationships of one type, a later relationship replacing an earlier one
RECURSIVE rel_dict(_, _, _)
rel_dict(rels, type, n) ==
    IF n = 0 THEN <<>>
    ELSE LET acc == rel_dict(rels, type, n - 1)
         IN IF rels[n].relationship_type = type
            THEN DictPut(acc, rels[n].source_id, rels[n].target_id)
            ELSE acc

\* lines 293-295: VM -> NIC -> subnet
RECURSIVE via_nic(_, _, _, _)
via_nic(acc, resource_to_nic, nic_to_subnet, i) ==
    IF i > Len(resource_to_nic) THEN acc
    ELSE LET rid == resource_to_nic[i].key
             nic_id == resource_to_nic[i].value
         IN via_nic(IF \E k \in DOMAIN nic_to_subnet : nic_to_subnet[k].key = nic_id
                    THEN DictPut(acc, rid, DictItemsGet(nic_to_subnet, nic_id, <<>>))
                    ELSE acc,
                    resource_to_nic, nic_to_subnet, i + 1)

\* _build_resource_subnet_map   (security.py 272-297): resource id -> subnet id
_build_resource_subnet_map(rels) ==
    LET nic_to_subnet == rel_dict(rels, "in_subnet", Len(rels))
        resource_to_nic == rel_dict(rels, "has_nic", Len(rels))
    IN via_nic(nic_to_subnet, resource_to_nic, nic_to_subnet, 1)

\* _build_pe_covered_set   (security.py 300-308)
_build_pe_covered_set(rels) ==
    {rels[i].target_id : i \in {j \in DOMAIN rels :
                                  rels[j].relationship_type = "private_link_to"}}
    \cup {rels[i].source_id : i \in {j \in DOMAIN rels :
                                       rels[j].relationship_type = "has_private_endpoint"}}

\* dict.get(key) that found nothing
None == <<"None">>

\* _subnet_has_public_resources   (security.py 311-323)
_subnet_has_public_resources(subnet_id, rs, resource_subnet_map, public_resources) ==
    \E i \in DOMAIN rs :
       /\ DictItemsGet(resource_subnet_map, LowerOrEmptyOf(rs[i], "id").s, None) = subnet_id
       /\ rs[i] \in public_resources

\* _classify_risk   (security.py 326-335)
_classify_risk(has_nsg, has_public) ==
    IF has_nsg /\ ~has_public THEN "green"
    ELSE IF ~has_nsg /\ has_public THEN "red"
    ELSE "yellow"

\* lines 136-144: the types that get no node of their own
InfrastructureTypes ==
    {<<"microsoft.network/networkinterfaces">>,
     <<"microsoft.network/virtualnetworks">>,
     <<"microsoft.network/virtualnetworks/subnets">>,
     <<"microsoft.network/networksecuritygroups">>,
     <<"microsoft.network/routetables">>,
     <<"microsoft.network/publicipaddresses">>,
     <<"microsoft.network/privateendpoints">>}

\* lines 110-128: the NSG node of a subnet
nsg_node(subnet_name, nsg_id, subnet_group_id) ==
    [id |-> <<"sec-nsg-">> \o subnet_name,
     name |-> IF nsg_id # <<>> THEN LastPart(nsg_id) ELSE <<"NSG">>,
     azure_resource_type |-> <<"microsoft.network/networksecuritygroups">>,
     azure_resource_id |-> <<>>,
     display_info |-> "Open ports",
     group_id |-> subnet_group_id,
     w |-> 120, h |-> 50,
     position |-> DefaultPos]

\* lines 151-183: the node of a resource of the subnet
resource_node(resource, subnet_group_id, public_resources, pe_covered_resources) ==
    LET rid == LowerOrEmptyOf(resource, "id").s
        rname == DictGet(resource, "name", JStr(<<>>)).s
    IN [id |-> <<"sec-">> \o rname,
        name |-> rname,
        azure_resource_type |-> LowerOrEmptyOf(resource, "type").s,
        azure_resource_id |-> rid,
        display_info |-> IF resource \in public_resources THEN "PUBLIC"
                         ELSE IF rid \in pe_covered_resources THEN "PE-covered"
                         ELSE "private",
        group_id |-> subnet_group_id,
        w |-> 130, h |-> 55,
        position |-> DefaultPos]

\* lines 131-149: the resources that get a node in the subnet, in input order
subnet_resources(rs, subnet_id, resource_subnet_map) ==
    SelectSeq(rs, LAMBDA resource :
        /\ LowerOrEmptyOf(resource, "type").s \notin InfrastructureTypes
        /\ DictItemsGet(resource_subnet_map, LowerOrEmptyOf(resource, "id").s, None)
             = subnet_id)

\* lines 86-185 for one subnet: [nodes, group], the nodes the subnet adds to
\* the page and its group
build_subnet(vnet_name, vnet_group_id, subnet, rs, ix) ==
    LET subnet_name == DictGet(subnet, "name", JStr(<<>>)).s
        subnet_id == Lower(DictGet(subnet, "id", JStr(<<>>)).s)
        has_nsg == \E k \in DOMAIN ix.subnet_nsg_map : ix.subnet_nsg_map[k].key = subnet_id
        has_public == _subnet_has_public_resources(subnet_id, rs, ix.resource_subnet_map,
                                                   ix.public_resources)
        subnet_group_id == <<"sec-subnet-">> \o vnet_name \o <<"-">> \o subnet_name
        nsg_nodes == IF has_nsg
                     THEN <<nsg_node(subnet_name,
                                     DictItemsGet(ix.subnet_nsg_map, subnet_id, <<>>),
                                     subnet_group_id)>>
                     ELSE <<>>
        members == subnet_resources(rs, subnet_id, ix.resource_subnet_map)
        new_nodes == nsg_nodes \o
                     [k \in DOMAIN members |->
                        resource_node(members[k], subnet_group_id, ix.public_resources,
                                      ix.pe_covered_resources)]
    IN [nodes |-> new_nodes,
        group |-> [id |-> subnet_group_id,
                   group_type |-> "subnet",
                   parent_id |-> vnet_group_id,
                   children |-> [k \in DOMAIN new_nodes |-> new_nodes[k].id],
                   azure_resource_id |-> subnet_id,
                   style |-> _classify_risk(has_nsg, has_public),
                   bounding_box |-> DefaultBox]]

\* lines 72-185 for one VNet: [nodes, groups], what the VNet adds to the
\* page.  The VNet group is appended before its subnet groups and holds
\* their ids
build_vnet(vnet, rs, ix) ==
    LET vnet_name == DictGet(vnet, "name", JStr(<<>>)).s
        vnet_group_id == <<"sec-vnet-">> \o vnet_name
        subnets == vnet_subnets(vnet)
        b == [i \in DOMAIN subnets |->
                build_subnet(vnet_name, vnet_group_id, subnets[i], rs, ix)]
    IN [nodes |-> Flatten([i \in DOMAIN subnets |-> b[i].nodes], Len(subnets)),
        groups |-> <<[id |-> vnet_group_id,
                      group_type |-> "vnet",
                      parent_id |-> NoParent,
                      children |-> [i \in DOMAIN subnets |-> b[i].group.id],
                      azure_resource_id |-> Lower(DictGet(vnet, "id", JStr(<<>>)).s),
                      style |-> "vnet",
                      bounding_box |-> DefaultBox]>>
                   \o [i \in DOMAIN subnets |-> b[i].group]]

\* lines 72-185: the nodes and the groups of all VNets, in input order
build_vnets(vs, rs, ix) ==
    LET b == [i \in DOMAIN vs |-> build_vnet(vs[i], rs, ix)]
    IN [nodes |-> Flatten([i \in DOMAIN vs |-> b[i].nodes], Len(vs)),
        groups |-> Flatten([i \in DOMAIN vs |-> b[i].groups], Len(vs))]

\* lines 189-191: the (nsg_id, subnet_id) pairs in the order of the two loops
RECURSIVE nsg_subnet_pairs(_, _)
nsg_subnet_pairs(nsg_to_subnets, n) ==
    IF n = 0 THEN <<>>
    ELSE nsg_subnet_pairs(nsg_to_subnets, n - 1)
         \o [k \in DOMAIN nsg_to_subnets[n].value |->
               [nsg_id |-> nsg_to_subnets[n].key, subnet_id |-> nsg_to_subnets[n].value[k]]]

\* lines 192-206: one edge to the first group of the subnet id, none when no
\* group has it; acc = [edges, edge_idx]
RECURSIVE nsg_edges(_, _, _, _)
nsg_edges(acc, pairs, i, gs) ==
    IF i > Len(pairs) THEN acc
    ELSE LET subnet_id == pairs[i].subnet_id
             found == {k \in DOMAIN gs : gs[k].azure_resource_id = subnet_id}
             g == gs[CHOOSE k \in found : \A j \in found : k <= j]
         IN nsg_edges(
              IF found = {} THEN acc
              ELSE [edges |-> Append(acc.edges,
                                     [id |-> <<"sec-nsg-edge-">> \o Decimal(acc.edge_idx),
                                      source_id |-> <<"sec-nsg-">> \o LastPart(subnet_id),
                                      target_id |-> g.id,
                                      label |-> "NSG",
                                      edge_type |-> "association"]),
                    edge_idx |-> acc.edge_idx + 1],
              pairs, i + 1, gs)

\* the objects the hierarchical layout wrote to: node_map and group_map hold
\* the last node and the last group of an id
laid_out(xs, i) == \A j \in DOMAIN xs : xs[j].id = xs[i].id => j <= i

\* lines 62-69: the indexes the page is built from.  public_resources holds
\* the resources ip_resolver.has_public_ip(resource) is true of
security_indexes(rs, vs, rels) ==
    LET nsg_to_subnets == _build_nsg_subnet_index(rels, vs)
    IN [nsg_to_subnets |-> nsg_to_subnets,
        subnet_nsg_map |-> _invert_nsg_subnet_index(nsg_to_subnets),
        resource_subnet_map |-> _build_resource_subnet_map(rels),
        pe_covered_resources |-> _build_pe_covered_set(rels),
        public_resources |-> {r \in {rs[i] : i \in DOMAIN rs} :
                                has_public_ip(IPResolver(rs), r).value}]

\* lines 208-212: the page [id, nodes, groups, edges] that
\* layout_page(page, LayoutStrategy.HIERARCHICAL) returns
security_page(ns, gs, es) ==
    LET r == layout_page([pos |-> [id \in SeqIds(ns) |-> DefaultPos],
                          bbox |-> [id \in SeqIds(gs) |-> DefaultBox],
                          err |-> FALSE],
                         ns, gs, "hierarchical")
    IN [id |-> <<"security">>,
        nodes |-> [i \in DOMAIN ns |->
                     [ns[i] EXCEPT !.position =
                        IF laid_out(ns, i) THEN r.pos[ns[i].id] ELSE DefaultPos]],
        groups |-> [i \in DOMAIN gs |->
                      [gs[i] EXCEPT !.bounding_box =
                         IF laid_out(gs, i) THEN r.bbox[gs[i].id] ELSE DefaultBox]],
        edges |-> es]

\* ------------------------------------------------------------------------
\* Inputs of build_security_page: one or two VNets with one subnet each, an
\* NSG, and virtual machines with a NIC in a subnet.  All resource ids are
\* pairwise distinct; names repeat across VNets and resource groups.  The
\* VNets have different names.
\* ------------------------------------------------------------------------
SecNsgId == <<SUBSCRIPTIONS, "/networkSecurityGroups/", "NSG1">>
NsgType == "Microsoft.Network/networkSecurityGroups"

SubnetIdOf(vnet_id, name) == vnet_id \o <<"/Subnets/", name>>

\* a subnet as the VNet lists it; mode "property": it names its NSG
Subnet(vnet_id, name, mode) ==
    JDict([name |-> JStr(<<name>>),
           id |-> JStr(SubnetIdOf(vnet_id, name)),
           properties |->
             IF mode = "property"
             THEN JDict([addressPrefix |-> JStr(<<"10.0.0.0/24">>),
                         networkSecurityGroup |-> Ref(SecNsgId)])
             ELSE JDict([addressPrefix |-> JStr(<<"10.0.0.0/24">>)])])

VnetWith(vnet_id, name, subnet) ==
    WithName(Res(vnet_id, VnetType, JDict([subnets |-> JList(<<subnet>>)])), name)

\* a virtual machine of resource group rg and the NIC that puts it in a subnet
VmIn(rg, name, nic, subnet_id) ==
    LET nic_id == <<SUBSCRIPTIONS, "/Microsoft.Network/networkInterfaces/", nic>>
    IN <<WithName(Res(<<SUBSCRIPTIONS, rg, "/", name>>, VmType,
                      JDict([networkProfile |->
                               JDict([networkInterfaces |-> JList(<<Ref(nic_id)>>)])])),
                  name),
         WithName(Res(nic_id, NicType,
                      JDict([ipConfigurations |->
                               JList(<<IpConfiguration([subnet |-> Ref(subnet_id)])>>)])),
                  nic)>>

\* mode "resource": the NSG resource lists the subnet
NsgFor(subnet_ids) ==
    IF subnet_ids = <<>> THEN <<>>
    ELSE <<WithName(Res(SecNsgId, NsgType,
                        JDict([subnets |->
                                 JList([k \in DOMAIN subnet_ids |-> Ref(subnet_ids[k])])])),
                    "NSG1")>>

NsgModes == {"none", "property", "resource"}
FirstSubnetNames == {"Web", "web"}
SecondVnets == {"none", "web", "db"}
VmPatterns == {"none", "one", "same name", "same name, other subnet", "other name"}

SecurityVnets(n1, second, m1, m2) ==
    <<VnetWith(VnetId, "Vnet1", Subnet(VnetId, n1, m1))>>
    \o (IF second = "none" THEN <<>>
        ELSE <<VnetWith(HubId, "Hub", Subnet(HubId, second, m2))>>)

SecurityResources(n1, second, m1, m2, vms) ==
    LET s1 == SubnetIdOf(VnetId, n1)
        s2 == IF second = "none" THEN s1 ELSE SubnetIdOf(HubId, second)
    IN (IF vms = "none" THEN <<>> ELSE VmIn("rg1", "VM1", "NIC1", s1))
       \o (IF vms \in {"none", "one"} THEN <<>>
           ELSE VmIn("rg2", IF vms = "other name" THEN "vm2" ELSE "VM1", "nic2",
                     IF vms = "same name, other subnet" THEN s2 ELSE s1))
       \o NsgFor((IF m1 = "resource" THEN <<s1>> ELSE <<>>)
                 \o (IF m2 = "resource" THEN <<s2>> ELSE <<>>))
       \o SecurityVnets(n1, second, m1, m2)

InitSecurity ==
    /\ LayoutIdle /\ FlowIdle /\ CtorIdle /\ IpIdle
    /\ runs = 0
    /\ relState = "given"
    /\ page = <<>>
    /\ document = <<>>
    /\ pageState = "inputs"
    /\ \E n1 \in FirstSubnetNames, second \in SecondVnets, m1 \in NsgModes,
          m2 \in NsgModes, vms \in VmPatterns :
         /\ second = "none" => m2 = "none"
         /\ vnets = SecurityVnets(n1, second, m1, m2)
         /\ resources = SecurityResources(n1, second, m1, m2, vms)
         /\ \E out \in {build_relationship_graph(resources)} : relationships = out.rels

\* build_security_page(resources, network_resources, relationships, nsg_rules)
BuildSecurityPage ==
    /\ pageState = "inputs"
    /\ \E ix \in {security_indexes(resources, vnets, relationships)} :
         \E b \in {build_vnets(vnets, resources, ix)} :
           \E e \in {nsg_edges([edges |-> <<>>, edge_idx |-> 0],
                               nsg_subnet_pairs(ix.nsg_to_subnets, Len(ix.nsg_to_subnets)),
                               1, b.groups)} :
              page' = security_page(b.nodes, b.groups, e.edges)
    /\ pageState' = "built"
    /\ UNCHANGED <<vnets, document, layoutVars, relVars, flowVars, ctorVars, ipVars>>

NextSecurity == BuildSecurityPage

SpecSecurity == InitSecurity /\ [][NextSecurity]_vars

\* ------------------------------------------------------------------------
\* Properties of the security page
\* ------------------------------------------------------------------------
\* the resource ids of the input: resources, VNets and their subnets
InputIds ==
    [i \in DOMAIN resources |-> LowerOrEmptyOf(resources[i], "id").s]
    \o Flatten([i \in DOMAIN vnets |->
                  [k \in DOMAIN vnet_subnets(vnets[i]) |->
                     LowerOrEmptyOf(vnet_subnets(vnets[i])[k], "id").s]],
               Len(vnets))

Distinct(s) == \A i, j \in DOMAIN s : i # j => s[i] # s[j]

IdsOf(xs) == [i \in DOMAIN xs |-> xs[i].id]

\* C24: in the page a template builder made from resources with pairwise
\* distinct resource ids, the ids of the nodes, groups and edges are
\* pairwise distinct, also when resources of different resource groups or
\* VNets have the same name
C24_PageIdsDistinct ==
    (pageState = "built" /\ Distinct(InputIds))
      => Distinct(IdsOf(page.nodes) \o IdsOf(page.groups) \o IdsOf(page.edges))

\* C28: every edge of a page a template builder made has, as source_id and
\* as target_id, the id of a node or of a group of the same page
C28_EdgesReferToPageElements ==
    pageState = "built"
      => \A i \in DOMAIN page.edges :
            /\ page.edges[i].source_id \in SeqIds(page.nodes) \cup SeqIds(page.groups)
            /\ page.edges[i].target_id \in SeqIds(page.nodes) \cup SeqIds(page.groups)

====
